---- MODULE Spec2Model ----
(***************************************************************************)
(* A model of sqlblade: WHERE/HAVING assembly and placeholder numbering    *)
(* (buildWhereClause, QueryBuilder.buildSQL), row scanning                 *)
(* (scanRowsOptimized, scanRows, getStructInfo) and value coercion         *)
(* (setFieldValue).                                                        *)
(*                                                                         *)
(* SQL text is kept as a sequence of parts, each part a sequence of        *)
(* tokens; the text of the program is the parts joined by single spaces.   *)
(* The part boundaries are those of the parts slice of buildWhereClause.   *)
(***************************************************************************)
EXTENDS Integers, Sequences, FiniteSets, TLC

VARIABLES
    qb,         \* the QueryBuilder: dialect, tableName, whereClauses, having, ...
    built,      \* what buildSQL returned: [done, sql, args]
    co,         \* one struct field and the setFieldValue calls made on it
    structCache,    \* structCache: record type -> *structInfo
    columnMapCache, \* columnMapCache.store: key -> map[string]int
    pool,           \* globalScanBufferPool: the buffers put back
    scan            \* the scanRows call in flight: its locals and position

builderVars == <<qb, built>>
coerceVars == <<co>>
scanVars == <<structCache, columnMapCache, pool, scan>>

VARIABLES
    meta,       \* the getStructInfo call of each goroutine: its position and type
    resolved    \* what the getStructInfo calls returned, in the order of return

VARIABLES
    txn,        \* the WithTransaction call in flight: its locals and position
    txDone      \* the calls that are over: what was invoked and what came back

VARIABLES
    stmts,      \* the stmtCache: store, the holder of mu, the prepares made
    callers,    \* the getStmt call of each goroutine: its position and SQL
    stmtRets    \* what the getStmt calls returned, in the order of return

VARIABLES
    heap,       \* the backing arrays of the selectCols slices
    frags,      \* the QueryFragments
    qbs         \* the QueryBuilders the fragments are applied to

VARIABLES
    stb,        \* a builder made from a database handle or from a transaction
    sent        \* what its Execute sent to the database, and what it returned

VARIABLES
    ins,        \* an InsertBuilder and the statement its Execute built
    hk,         \* DefaultHooks and one QueryBuilder.Execute running against them
    cl          \* the statements ClearStmtCache closed and the uses of statements

VARIABLES
    cmc,        \* columnMapCacheInst: store, the holders of mu, the maps made
    cmCallers,  \* the getColumnMap call of each goroutine: position and locals
    cmLog       \* the returns of getColumnMap and the accesses to the store

metaVars == <<meta, resolved>>
txVars == <<txn, txDone>>
stmtVars == <<stmts, callers, stmtRets>>
fragVars == <<heap, frags, qbs>>
colVars == <<cmc, cmCallers, cmLog>>
execVars == <<stb, sent>>
lateVars == <<ins, hk, cl>>
restVars == <<metaVars, txVars, stmtVars, fragVars, colVars, execVars, lateVars>>
vars == <<qb, built, co, structCache, columnMapCache, pool, scan, meta, resolved,
          txn, txDone, stmts, callers, stmtRets, heap, frags, qbs,
          cmc, cmCallers, cmLog, stb, sent, ins, hk, cl>>

(***************************************************************************)
(* Bounds of the model.                                                    *)
(***************************************************************************)
MaxWhere == 2
MaxHaving == 1
\* setFieldValue calls made on one field
MaxCalls == 2
\* rows one result set delivers, and scanRows calls one after the other
MaxRows == 2
MaxScans == 2
\* getStructInfo calls made by the goroutines together
MaxResolves == 3
\* WithTransaction calls one after the other
MaxTransactions == 2
\* getStmt calls made by the goroutines together
MaxGetStmt == 3
\* columns one fragment or builder selects
MaxSelectCols == 4
\* getColumnMap calls made by the goroutines together
\* hooks registered of each kind
MaxHooks == 2

\* statements run through the statement cache, and ClearStmtCache calls
MaxStmtUses == 3
MaxClears == 1

MaxColumnMapCalls == 3
\* bits of the 64-bit integer kinds in the model (TLC's integers
\* end below 2^31); the 8-bit kinds keep their width
WideBits == 16

(***************************************************************************)
(* Generic helpers.                                                        *)
(***************************************************************************)
RECURSIVE Flatten(_)
Flatten(ss) == IF ss = <<>> THEN <<>> ELSE Head(ss) \o Flatten(Tail(ss))

Min(a, b) == IF a < b THEN a ELSE b

(***************************************************************************)
(* dialect: Placeholder and QuoteIdentifier.                               *)
(***************************************************************************)
Dialects == {"postgres", "mysql", "sqlite"}

placeholderCache ==
    << "$0", "$1", "$2", "$3", "$4", "$5", "$6", "$7", "$8", "$9",
       "$10", "$11", "$12", "$13", "$14", "$15", "$16", "$17", "$18", "$19",
       "$20", "$21", "$22", "$23", "$24", "$25", "$26", "$27", "$28", "$29",
       "$30", "$31", "$32", "$33", "$34", "$35", "$36", "$37", "$38", "$39",
       "$40", "$41", "$42", "$43", "$44", "$45", "$46", "$47", "$48", "$49",
       "$50", "$51", "$52", "$53", "$54", "$55", "$56", "$57", "$58", "$59",
       "$60", "$61", "$62", "$63", "$64", "$65", "$66", "$67", "$68", "$69",
       "$70", "$71", "$72", "$73", "$74", "$75", "$76", "$77", "$78", "$79",
       "$80", "$81", "$82", "$83", "$84", "$85", "$86", "$87", "$88", "$89",
       "$90", "$91", "$92", "$93", "$94", "$95", "$96", "$97", "$98", "$99" >>

DecimalDigits == <<"0", "1", "2", "3", "4", "5", "6", "7", "8", "9">>

\* the digit loop of fastIntToString: least significant digit written last
RECURSIVE IntDigits(_)
IntDigits(n) ==
    IF n = 0 THEN "" ELSE IntDigits(n \div 10) \o DecimalDigits[(n % 10) + 1]

fastIntToString(n) ==
    IF n = 0 THEN "0"
    ELSE IF n < 0 THEN "-" \o IntDigits(-n)
    ELSE IntDigits(n)

PostgresPlaceholder(index) ==
    IF index >= 0 /\ index < Len(placeholderCache)
    THEN placeholderCache[index + 1]
    ELSE "$" \o fastIntToString(index)

Placeholder(d, index) ==
    IF d = "postgres" THEN PostgresPlaceholder(index) ELSE "?"

\* MySQL quotes with the backtick, which a string of this module cannot
\* hold: BackTick stands for it.
BackTick == "^"

\* Identifiers of the model hold no dot and no quote character, so the
\* split on "." gives one part and ReplaceAll changes nothing.
QuoteIdentifier(d, identifier) ==
    IF d = "mysql" THEN BackTick \o identifier \o BackTick
    ELSE "\"" \o identifier \o "\""

(***************************************************************************)
(* WHERE / HAVING assembly.                                                *)
(***************************************************************************)
validOperators ==
    { "=", "!=", "<>", ">", ">=", "<", "<=", "IN", "NOT IN", "LIKE",
      "NOT LIKE", "IS NULL", "IS NOT NULL", "BETWEEN", "NOT BETWEEN" }

\* strings.ToUpper(strings.TrimSpace(op)) on the spellings the model uses
ToUpperTrim(op) ==
    CASE op = "in" -> "IN"
      [] op = " IN " -> "IN"
      [] op = "not in" -> "NOT IN"
      [] op = "between" -> "BETWEEN"
      [] op = " like" -> "LIKE"
      [] op = "is null" -> "IS NULL"
      [] op = "select" -> "SELECT"
      [] OTHER -> op

isValidOperator(op) == ToUpperTrim(op) \in validOperators

\* clause.Value.([]interface{}): the assertion succeeds on a list only
IsSlice(value) == value.t = "list"

\* strings.Join(placeholders, ", ") between the parentheses of IN
RECURSIVE JoinPlaceholders(_, _, _)
JoinPlaceholders(d, from, k) ==
    IF k = 0 THEN <<>>
    ELSE <<Placeholder(d, from)>>
         \o (IF k > 1 THEN <<",">> ELSE <<>>)
         \o JoinPlaceholders(d, from + 1, k - 1)

\* the IN / NOT IN case with the elements bound in reverse
InConditionReversedArgs(d, clause, op, paramIndex) ==
    LET values == clause.Value.v
        k == Len(values)
    IN  [ condition |-> <<QuoteIdentifier(d, clause.Column), op, "(">>
                        \o JoinPlaceholders(d, paramIndex + 1, k) \o <<")">>,
          args |-> [j \in 1..k |-> values[k + 1 - j]],
          paramIndex |-> paramIndex + k ]

\* the IN / NOT IN case: one placeholder and one argument per element
InCondition(d, clause, op, paramIndex) ==
    LET values == clause.Value.v
        k == Len(values)
    IN  [ condition |-> <<QuoteIdentifier(d, clause.Column), op, "(">>
                        \o JoinPlaceholders(d, paramIndex + 1, k) \o <<")">>,
          args |-> values,
          paramIndex |-> paramIndex + k ]

\* the switch of buildWhereClause: the condition of one clause whose
\* operator is valid; condition <<>> is the empty string
Condition(d, clause, op, paramIndex) ==
    CASE op \in {"IS NULL", "IS NOT NULL"} ->
           [ condition |-> <<QuoteIdentifier(d, clause.Column), op>>,
             args |-> <<>>, paramIndex |-> paramIndex ]
      [] op \in {"IN", "NOT IN"} ->
           IF IsSlice(clause.Value) /\ Len(clause.Value.v) > 0
           THEN InCondition(d, clause, op, paramIndex)
           ELSE [ condition |-> <<>>, args |-> <<>>, paramIndex |-> paramIndex ]
      [] op \in {"BETWEEN", "NOT BETWEEN"} ->
           IF IsSlice(clause.Value) /\ Len(clause.Value.v) = 2
           THEN [ condition |-> << QuoteIdentifier(d, clause.Column), op,
                                   Placeholder(d, paramIndex + 1), "AND",
                                   Placeholder(d, paramIndex + 2) >>,
                  args |-> <<clause.Value.v[1], clause.Value.v[2]>>,
                  paramIndex |-> paramIndex + 2 ]
           ELSE [ condition |-> <<>>, args |-> <<>>, paramIndex |-> paramIndex ]
      [] OTHER ->
           [ condition |-> << QuoteIdentifier(d, clause.Column), op,
                              Placeholder(d, paramIndex + 1) >>,
             args |-> <<clause.Value>>,
             paramIndex |-> paramIndex + 1 ]

\* one iteration of the loop over clauses; i is the 0-based loop index
WhereStep(d, clause, i, st) ==
    LET op == ToUpperTrim(clause.Operator) IN
    IF ~isValidOperator(op) THEN st
    ELSE LET c == Condition(d, clause, op, st.paramIndex) IN
         [ parts |-> IF c.condition # <<>>
                     THEN st.parts
                          \o (IF i > 0
                              THEN IF clause.And THEN << <<"AND">> >>
                                                 ELSE << <<"OR">> >>
                              ELSE <<>>)
                          \o <<c.condition>>
                     ELSE st.parts,
           args |-> st.args \o c.args,
           paramIndex |-> c.paramIndex ]

RECURSIVE WhereLoop(_, _, _, _)
WhereLoop(d, clauses, i, st) ==
    IF i >= Len(clauses) THEN st
    ELSE WhereLoop(d, clauses, i + 1, WhereStep(d, clauses[i + 1], i, st))

\* buildWhereClause(d, clauses, &paramIndex): the fragment ("" is <<>>),
\* the bound arguments and the parameter index it leaves
buildWhereClause(d, clauses, paramIndex) ==
    IF Len(clauses) = 0
    THEN [sql |-> <<>>, args |-> <<>>, paramIndex |-> paramIndex]
    ELSE LET st == WhereLoop(d, clauses, 0,
                     [parts |-> <<>>, args |-> <<>>, paramIndex |-> paramIndex])
         IN  IF Len(st.parts) = 0
             THEN [sql |-> <<>>, args |-> <<>>, paramIndex |-> st.paramIndex]
             ELSE [ sql |-> << <<"WHERE">> >> \o st.parts,
                    args |-> st.args,
                    paramIndex |-> st.paramIndex ]

\* strings.Replace(s, old, new, 1) on the tokens of a fragment
RECURSIVE ReplaceFirstToken(_, _, _)
ReplaceFirstToken(toks, old, new) ==
    IF toks = <<>> THEN <<>>
    ELSE IF Head(toks) = old THEN <<new>> \o Tail(toks)
    ELSE <<Head(toks)>> \o ReplaceFirstToken(Tail(toks), old, new)

RECURSIVE ReplaceFirst(_, _, _)
ReplaceFirst(frag, old, new) ==
    IF frag = <<>> THEN <<>>
    ELSE IF \E j \in 1..Len(Head(frag)) : Head(frag)[j] = old
    THEN <<ReplaceFirstToken(Head(frag), old, new)>> \o Tail(frag)
    ELSE <<Head(frag)>> \o ReplaceFirst(Tail(frag), old, new)

\* the SELECT list, FROM and GROUP BY parts of buildSQL
QuotedList(d, cols) ==
    Flatten([i \in 1..Len(cols) |->
        <<QuoteIdentifier(d, cols[i])>> \o (IF i < Len(cols) THEN <<",">> ELSE <<>>)])

SelectHead(b) ==
    << <<"SELECT">> >>
    \o (IF b.distinct THEN << <<"DISTINCT">> >> ELSE <<>>)
    \o (IF Len(b.selectCols) > 0
        THEN <<QuotedList(b.dialect, b.selectCols)>>
        ELSE << <<"*">> >>)
    \o << <<"FROM">>, <<QuoteIdentifier(b.dialect, b.tableName)>> >>

GroupByPart(b) ==
    IF Len(b.groupBy) > 0
    THEN << <<"GROUP BY">> \o QuotedList(b.dialect, b.groupBy) >>
    ELSE <<>>

\* buildSQL with the parameter index started again at HAVING
buildSQLResetAtHaving(b) ==
    LET w == buildWhereClause(b.dialect, b.whereClauses, 0)
        h == IF Len(b.having) > 0
             THEN buildWhereClause(b.dialect, b.having, 0)
             ELSE [sql |-> <<>>, args |-> <<>>, paramIndex |-> 0]
    IN  [ sql |-> SelectHead(b) \o w.sql \o GroupByPart(b)
                  \o ReplaceFirst(h.sql, "WHERE", "HAVING"),
          args |-> w.args \o h.args ]

\* QueryBuilder.buildSQL for a builder without joins, ordering and paging
buildSQL(b) ==
    LET w == buildWhereClause(b.dialect, b.whereClauses, 0)
        h == IF Len(b.having) > 0
             THEN buildWhereClause(b.dialect, b.having, w.paramIndex)
             ELSE [sql |-> <<>>, args |-> <<>>, paramIndex |-> w.paramIndex]
    IN  [ sql |-> SelectHead(b) \o w.sql \o GroupByPart(b)
                  \o ReplaceFirst(h.sql, "WHERE", "HAVING"),
          args |-> w.args \o h.args ]

(***************************************************************************)
(* The QueryBuilder and its fluent calls.  The operator spelling and the   *)
(* shape of the value are the caller's choice; the column and the values   *)
(* follow from the position of the clause, so that every bound value of a  *)
(* statement is distinct and its origin can be told.                       *)
(***************************************************************************)
\* what the callers of the model pass to Where / OrWhere and to Having; the
\* two sets together take every case of the switch of buildWhereClause
WhereInputs ==
    { <<"=", "scalar">>, <<"in", "list3">>, <<"IN", "list0">>,
      <<"BETWEEN", "list2">>, <<"IS NULL", "scalar">>, <<"==", "scalar">> }

HavingInputs ==
    { <<"NOT IN", "list1">>, <<" IN ", "scalar">>, <<"between", "list3">> }

WhereColumns == <<"status", "age", "name">>
HavingColumns == <<"total", "cnt">>

ColumnAt(cols, i) == cols[((i - 1) % Len(cols)) + 1]

Scalar(n) == [t |-> "scalar", v |-> n]

ListLen(shape) ==
    CASE shape = "list0" -> 0
      [] shape = "list1" -> 1
      [] shape = "list2" -> 2
      [] shape = "list3" -> 3
      [] OTHER -> 0

ValueOf(shape, base) ==
    IF shape = "scalar" THEN Scalar(base)
    ELSE [t |-> "list", v |-> [j \in 1..ListLen(shape) |-> Scalar(base + j)]]

\* Query[T](db): the builder as constructed
NewQueryBuilder(d) ==
    [ dialect |-> d, tableName |-> "users", whereClauses |-> <<>>,
      having |-> <<>>, selectCols |-> <<>>, groupBy |-> <<>>,
      distinct |-> FALSE ]

NotBuilt == [done |-> FALSE, sql |-> <<>>, args |-> <<>>]

BuilderIdle ==
    /\ qb = NewQueryBuilder("postgres")
    /\ built = NotBuilt

BuilderInit ==
    /\ qb \in {NewQueryBuilder(d) : d \in {"postgres", "sqlite"}}
    /\ built = NotBuilt

AppendWhere(in, and) ==
    LET i == Len(qb.whereClauses) + 1 IN
    qb' = [qb EXCEPT !.whereClauses = Append(@,
            [ Column |-> ColumnAt(WhereColumns, i), Operator |-> in[1],
              Value |-> ValueOf(in[2], 10 * i), And |-> and ])]

Where ==
    /\ ~built.done
    /\ Len(qb.whereClauses) < MaxWhere
    /\ \E in \in WhereInputs : AppendWhere(in, TRUE)
    /\ UNCHANGED <<built, coerceVars, scanVars, restVars>>

OrWhere ==
    /\ ~built.done
    /\ Len(qb.whereClauses) < MaxWhere
    /\ \E in \in WhereInputs : AppendWhere(in, FALSE)
    /\ UNCHANGED <<built, coerceVars, scanVars, restVars>>

Having ==
    /\ ~built.done
    /\ Len(qb.having) < MaxHaving
    /\ \E in \in HavingInputs :
         LET i == Len(qb.having) + 1 IN
         qb' = [qb EXCEPT !.having = Append(@,
                 [ Column |-> ColumnAt(HavingColumns, i), Operator |-> in[1],
                   Value |-> ValueOf(in[2], 100 + 10 * i), And |-> TRUE ])]
    /\ UNCHANGED <<built, coerceVars, scanVars, restVars>>

\* Execute up to the rendering of the statement: sqlStr, args := qb.buildSQL()
BuildSQL ==
    /\ ~built.done
    /\ built' = [done |-> TRUE, sql |-> buildSQL(qb).sql, args |-> buildSQL(qb).args]
    /\ UNCHANGED <<qb, coerceVars, scanVars, restVars>>

BuilderNext == Where \/ OrWhere \/ Having \/ BuildSQL

(***************************************************************************)
(* Reading a rendered statement back: its placeholders from left to right, *)
(* its WHERE and HAVING fragments, and the clauses the claims call         *)
(* dropped.                                                                *)
(***************************************************************************)

\* no statement of the model binds more arguments than this
MaxIndex == 3 * (MaxWhere + MaxHaving) + 3

IsPlaceholderToken(tok) == \E n \in 0..MaxIndex : PostgresPlaceholder(n) = tok

PlaceholderNumber(tok) == CHOOSE n \in 0..MaxIndex : PostgresPlaceholder(n) = tok

PlaceholderNumbers(frag) ==
    LET ph == SelectSeq(Flatten(frag), IsPlaceholderToken)
    IN  [i \in 1..Len(ph) |-> PlaceholderNumber(ph[i])]

\* the parts from the part <<kw>> up to the next keyword part
IsKeywordPart(part) ==
    part \in {<<"WHERE">>, <<"HAVING">>} \/ part[1] = "GROUP BY"

RECURSIVE TakeFragment(_)
TakeFragment(parts) ==
    IF parts = <<>> \/ IsKeywordPart(Head(parts)) THEN <<>>
    ELSE <<Head(parts)>> \o TakeFragment(Tail(parts))

RECURSIVE FragmentOf(_, _)
FragmentOf(parts, kw) ==
    IF parts = <<>> THEN <<>>
    ELSE IF Head(parts) = <<kw>> THEN <<Head(parts)>> \o TakeFragment(Tail(parts))
    ELSE FragmentOf(Tail(parts), kw)

IsDropped(c) ==
    LET op == ToUpperTrim(c.Operator) IN
    \/ op \notin validOperators
    \/ op \in {"IN", "NOT IN"} /\ ~(c.Value.t = "list" /\ Len(c.Value.v) > 0)
    \/ op \in {"BETWEEN", "NOT BETWEEN"} /\ ~(c.Value.t = "list" /\ Len(c.Value.v) = 2)

IsEmitted(c) == ~IsDropped(c)

WithoutDropped(clauses) == SelectSeq(clauses, IsEmitted)

IsMembership(c) ==
    /\ ToUpperTrim(c.Operator) \in {"IN", "NOT IN"}
    /\ c.Value.t = "list"
    /\ Len(c.Value.v) > 0

AllClauses == qb.whereClauses \o qb.having

(***************************************************************************)
(* C1: with the numbered-placeholder dialect, the placeholders of the      *)
(* statement buildSQL renders, read left to right through WHERE and then   *)
(* HAVING, are numbered 1, 2, ..., N, where N is the number of arguments   *)
(* returned: no gap, no repeat, no reset at HAVING.                        *)
(***************************************************************************)
C1_PlaceholdersNumberedThroughWhereAndHaving ==
    (built.done /\ qb.dialect = "postgres") =>
        PlaceholderNumbers(built.sql) = [i \in 1..Len(built.args) |-> i]

\* a statement whose WHERE and HAVING both carry placeholders, after a
\* dropped clause
C1_Witness ==
    /\ built.done
    /\ qb.dialect = "postgres"
    /\ PlaceholderNumbers(FragmentOf(built.sql, "WHERE")) # <<>>
    /\ PlaceholderNumbers(FragmentOf(built.sql, "HAVING")) # <<>>
    /\ \E i \in 1..Len(qb.whereClauses) : IsDropped(qb.whereClauses[i])

(***************************************************************************)
(* C2: an IN / NOT IN clause over a sequence of k > 0 elements is rendered *)
(* as one condition with exactly k placeholders, numbered on from the      *)
(* placeholders before it, and the argument bound at the number of its     *)
(* j-th placeholder is its j-th element; status IN [a, b, c] from index 0  *)
(* renders "status" IN ($1, $2, $3) with the three elements as arguments.  *)
(***************************************************************************)
C2_MembershipRendered(c) ==
    \E p \in 1..Len(built.sql) :
        LET part == built.sql[p]
            k == Len(c.Value.v)
            nums == PlaceholderNumbers(<<part>>)
            before == Len(PlaceholderNumbers(SubSeq(built.sql, 1, p - 1)))
        IN  /\ part = << QuoteIdentifier(qb.dialect, c.Column),
                         ToUpperTrim(c.Operator), "(" >>
                      \o Flatten([j \in 1..k |->
                            <<PostgresPlaceholder(before + j)>>
                            \o (IF j < k THEN <<",">> ELSE <<>>)])
                      \o <<")">>
            /\ Len(nums) = k
            /\ \A j \in 1..k : /\ nums[j] = before + j
                               /\ nums[j] <= Len(built.args)
                               /\ built.args[nums[j]] = c.Value.v[j]

C2_MembershipBindsElementsInOrder ==
    (built.done /\ qb.dialect = "postgres") =>
        /\ \A i \in 1..Len(AllClauses) :
              IsMembership(AllClauses[i]) => C2_MembershipRendered(AllClauses[i])
        /\ ( /\ Len(qb.whereClauses) = 1
             /\ qb.having = <<>>
             /\ qb.whereClauses[1].Operator = "in"
             /\ Len(qb.whereClauses[1].Value.v) = 3 )
           => /\ FragmentOf(built.sql, "WHERE") =
                    << <<"WHERE">>,
                       <<"\"status\"", "IN", "(", "$1", ",", "$2", ",", "$3", ")">> >>
              /\ built.args = qb.whereClauses[1].Value.v

\* a three-element IN clause rendered after a clause that already took
\* placeholders
C2_Witness ==
    /\ built.done
    /\ qb.dialect = "postgres"
    /\ Len(qb.whereClauses) = 2
    /\ ToUpperTrim(qb.whereClauses[1].Operator) = "BETWEEN"
    /\ ~IsDropped(qb.whereClauses[1])
    /\ IsMembership(qb.whereClauses[2])
    /\ Len(qb.whereClauses[2].Value.v) = 3
    /\ Len(built.args) = 5

(***************************************************************************)
(* C3: a dropped clause (operator outside the whitelist, IN / NOT IN with  *)
(* an empty or non-sequence value, BETWEEN / NOT BETWEEN without exactly   *)
(* two values) leaves no trace: the statement and arguments equal those    *)
(* built from the clause lists with the dropped clauses removed.           *)
(***************************************************************************)
C3_DroppedClausesLeaveNoTrace ==
    built.done =>
        LET pruned == [qb EXCEPT !.whereClauses = WithoutDropped(@),
                                 !.having = WithoutDropped(@)]
        IN  /\ built.sql = buildSQL(pruned).sql
            /\ built.args = buildSQL(pruned).args

(***************************************************************************)
(* C4: a fragment is the keyword, then the emitted conditions with exactly *)
(* one combinator between two successive ones, the combinator of the later *)
(* clause; no combinator precedes the first emitted condition, also when   *)
(* clauses before it were dropped.                                         *)
(***************************************************************************)
IsCombinatorPart(part) == part \in {<<"AND">>, <<"OR">>}

C4_FragmentWellFormed(frag, kw, clauses) ==
    LET em == WithoutDropped(clauses) IN
    IF Len(em) = 0 THEN frag = <<>>
    ELSE /\ Len(frag) = 2 * Len(em)
         /\ frag[1] = <<kw>>
         /\ \A m \in 1..Len(em) :
               /\ ~IsCombinatorPart(frag[2 * m])
               /\ frag[2 * m][1] = QuoteIdentifier(qb.dialect, em[m].Column)
         /\ \A m \in 2..Len(em) :
               frag[2 * m - 1] = IF em[m].And THEN <<"AND">> ELSE <<"OR">>

C4_OneCombinatorBetweenEmittedConditions ==
    built.done =>
        /\ C4_FragmentWellFormed(FragmentOf(built.sql, "WHERE"), "WHERE", qb.whereClauses)
        /\ C4_FragmentWellFormed(FragmentOf(built.sql, "HAVING"), "HAVING", qb.having)

(***************************************************************************)
(* Values.  What the driver hands back for one column is a dynamic value   *)
(* [t, v]: t is its Go type, v its content (Null is the nil interface).    *)
(* A struct field holds [t |-> kind, v |-> content]; an optional field is  *)
(* NilPtr or Ptr(x).  A float64 is written as its number of halves, so     *)
(* 1.5 is 3.                                                               *)
(***************************************************************************)

RECURSIVE Pow2(_)
Pow2(n) == IF n = 0 THEN 1 ELSE 2 * Pow2(n - 1)

Null == [t |-> "nil", v |-> 0]
NilPtr == [t |-> "nilptr", v |-> 0]
Ptr(x) == [t |-> "ptr", v |-> x]

SignedKinds == {"int8", "int64"}
UnsignedKinds == {"uint8", "uint64"}
Kinds == SignedKinds \cup UnsignedKinds \cup {"float64", "string", "bool", "bytes"}

Bits(kind) == IF kind \in {"int8", "uint8"} THEN 8 ELSE WideBits

\* reflect.Zero of a type of this kind
Zero(kind) ==
    [ t |-> kind,
      v |-> CASE kind \in {"string", "bytes"} -> ""
              [] kind = "bool" -> FALSE
              [] OTHER -> 0 ]

ZeroField(kind, isPtr) == IF isPtr THEN NilPtr ELSE Zero(kind)

\* intN(x): the low bits of x read as a signed number
WrapSigned(x, bits) ==
    LET r == x % Pow2(bits)
    IN  IF r >= Pow2(bits - 1) THEN r - Pow2(bits) ELSE r

\* uintN(x): the low bits of x
WrapUnsigned(x, bits) == x % Pow2(bits)

\* int64(f): the fraction is discarded (truncation toward zero)
TruncFloat(h) == IF h >= 0 THEN h \div 2 ELSE -((-h) \div 2)

\* uint64(f): for f <= -1 the Go specification leaves the result to the
\* implementation; amd64 yields the bits of int64(f), arm64 yields 0
UndefinedOutcomes == {"wrap", "saturate"}

FloatToUint64(h, und) ==
    IF TruncFloat(h) >= 0 THEN TruncFloat(h)
    ELSE IF und = "wrap" THEN WrapUnsigned(TruncFloat(h), WideBits) ELSE 0

\* reflect.Value.String() of a value that is not a string
ValueString(value) ==
    CASE value.t = "string" -> value.v
      [] value.t = "int64" -> "<int64 Value>"
      [] value.t = "float64" -> "<float64 Value>"
      [] value.t = "bool" -> "<bool Value>"
      [] OTHER -> "<[]uint8 Value>"

\* val.Type().AssignableTo(field.Type()): the types are identical
AssignableTo(value, kind, isPtr) == ~isPtr /\ value.t = kind

\* val.Type().ConvertibleTo(fieldType) for a field of kind []byte
ConvertibleTo(value, kind) == kind = "bytes" /\ value.t \in {"string", "bytes"}

\* the switch on fieldType.Kind(): what the pointed-to field holds after it,
\* and whether a reflect call panicked
ConvertInto(elem, value, kind, und) ==
    CASE kind \in SignedKinds ->
           [ panic |-> FALSE,
             field |-> IF value.t = "int64"
                         THEN [t |-> kind, v |-> WrapSigned(value.v, Bits(kind))]
                       ELSE IF value.t = "float64"
                         THEN [t |-> kind,
                               v |-> WrapSigned(TruncFloat(value.v), Bits(kind))]
                       ELSE elem ]
      [] kind \in UnsignedKinds ->
           [ panic |-> FALSE,
             field |-> IF value.t = "int64"
                         THEN [t |-> kind,
                               v |-> WrapUnsigned(WrapUnsigned(value.v, WideBits),
                                                  Bits(kind))]
                       ELSE IF value.t = "float64"
                         THEN [t |-> kind,
                               v |-> WrapUnsigned(FloatToUint64(value.v, und),
                                                  Bits(kind))]
                       ELSE elem ]
      [] kind = "float64" ->
           [ panic |-> FALSE,
             field |-> IF value.t = "float64" THEN [t |-> kind, v |-> value.v]
                       ELSE IF value.t = "int64" THEN [t |-> kind, v |-> 2 * value.v]
                       ELSE elem ]
      [] kind = "string" ->
           [ panic |-> FALSE, field |-> [t |-> kind, v |-> ValueString(value)] ]
      [] kind = "bool" ->
           IF value.t = "bool"
             THEN [ panic |-> FALSE, field |-> [t |-> kind, v |-> value.v] ]
             ELSE [ panic |-> TRUE, field |-> elem ]
      [] OTHER ->
           [ panic |-> FALSE,
             field |-> IF ConvertibleTo(value, kind)
                         THEN [t |-> kind, v |-> value.v] ELSE elem ]

\* setFieldValue(field, value, fieldType): the field afterwards, whether the
\* call panicked, and the error it returned ("" is nil)
setFieldValue(field, value, kind, isPtr, canSet, und) ==
    IF ~canSet
      THEN [field |-> field, panic |-> FALSE, err |-> "field cannot be set"]
    ELSE IF value = Null
      THEN [ field |-> IF isPtr THEN NilPtr ELSE field,
             panic |-> FALSE, err |-> "" ]
    ELSE IF AssignableTo(value, kind, isPtr)
      THEN [ field |-> [t |-> kind, v |-> value.v], panic |-> FALSE, err |-> "" ]
    ELSE
      LET elem == IF isPtr
                    THEN (IF field = NilPtr THEN Zero(kind) ELSE field.v)
                    ELSE field
          r == ConvertInto(elem, value, kind, und)
      IN  [ field |-> IF isPtr THEN Ptr(r.field) ELSE r.field,
            panic |-> r.panic, err |-> "" ]

(***************************************************************************)
(* setFieldValue on one field: the field starts at the zero value of its   *)
(* type and is handed driver values one call after the other.              *)
(***************************************************************************)

I(n) == [t |-> "int64", v |-> n]
F(h) == [t |-> "float64", v |-> h]
S(s) == [t |-> "string", v |-> s]
B(b) == [t |-> "bool", v |-> b]
Y(s) == [t |-> "bytes", v |-> s]

DriverValues ==
    { I(1), I(-1), I(300), F(3), F(-3), S("Alice"), B(TRUE), Y("Bob") }

CoerceIdle ==
    co = [ kind |-> "int64", isPtr |-> FALSE, field |-> Zero("int64"),
           values |-> <<>>, pc |-> "ready" ]

CoerceInit ==
    co \in { [ kind |-> k, isPtr |-> p, field |-> ZeroField(k, p),
               values |-> <<>>, pc |-> "ready" ] :
             k \in Kinds, p \in BOOLEAN }

\* one call setFieldValue(fieldVal, value, field.fieldType)
SetFieldValue ==
    /\ co.pc # "panicked"
    /\ Len(co.values) < MaxCalls
    /\ \E value \in DriverValues \cup {Null}, und \in UndefinedOutcomes :
         LET r == setFieldValue(co.field, value, co.kind, co.isPtr, TRUE, und)
         IN  co' = [co EXCEPT !.field = r.field,
                              !.values = Append(@, value),
                              !.pc = IF r.panic THEN "panicked" ELSE "returned"]
    /\ UNCHANGED <<builderVars, scanVars, restVars>>

CoerceNext == SetFieldValue

(***************************************************************************)
(* Record types and their reflection data.  A name that the code converts  *)
(* (a type name, a db tag, a result column) is written as the sequence of  *)
(* its characters, so that lower-casing, snake-casing and splitting are    *)
(* computed character by character as the code computes them.              *)
(***************************************************************************)

UpperLetters ==
    << "A", "B", "C", "D", "E", "F", "G", "H", "I", "J", "K", "L", "M",
       "N", "O", "P", "Q", "R", "S", "T", "U", "V", "W", "X", "Y", "Z" >>

LowerLetters ==
    << "a", "b", "c", "d", "e", "f", "g", "h", "i", "j", "k", "l", "m",
       "n", "o", "p", "q", "r", "s", "t", "u", "v", "w", "x", "y", "z" >>

IsUpper(c) == \E i \in 1..Len(UpperLetters) : UpperLetters[i] = c

\* strings.ToLower
ToLower(s) ==
    [ i \in 1..Len(s) |->
        IF IsUpper(s[i])
          THEN LowerLetters[CHOOSE j \in 1..Len(UpperLetters) : UpperLetters[j] = s[i]]
          ELSE s[i] ]

\* toLowerCache only remembers what strings.ToLower returned
cachedToLower(s) == ToLower(s)

\* toSnakeCase: an underscore before every capital but the first character
toSnakeCase(s) ==
    ToLower(Flatten([ i \in 1..Len(s) |->
                        IF i > 1 /\ IsUpper(s[i]) THEN <<"_", s[i]>> ELSE <<s[i]>> ]))

\* strings.Split(dbTag, ",")[0]
RECURSIVE FirstPart(_)
FirstPart(tag) ==
    IF tag = <<>> \/ Head(tag) = "," THEN <<>>
    ELSE <<Head(tag)>> \o FirstPart(Tail(tag))

\* the types T the program scans into: structs, int, which is none, and
\* pointers to them
PointerTypes == {"*User", "**User", "*int"}

\* typ.Elem() of a pointer type
Elem(typ) ==
    CASE typ = "*User" -> "User"
      [] typ = "**User" -> "*User"
      [] typ = "*int" -> "int"
      [] OTHER -> typ

TypeDecl(typ) ==
    CASE typ = "User" ->
           [ kind |-> "struct", name |-> <<"U", "s", "e", "r">>, tableNamer |-> <<>>,
             fields |-> <<
               [ name |-> "ID", exported |-> TRUE, tag |-> <<"i", "d">>,
                 kind |-> "int64", isPtr |-> FALSE ],
               [ name |-> "Name", exported |-> TRUE, tag |-> <<"n", "a", "m", "e">>,
                 kind |-> "string", isPtr |-> FALSE ],
               [ name |-> "Email", exported |-> TRUE,
                 tag |-> <<"e", "m", "a", "i", "l">>,
                 kind |-> "string", isPtr |-> TRUE ] >> ]
      [] typ = "Account" ->
           [ kind |-> "struct",
             name |-> <<"A", "c", "c", "o", "u", "n", "t">>,
             tableNamer |-> <<"a", "c", "c", "t", "s">>,
             fields |-> <<
               [ name |-> "secret", exported |-> FALSE, tag |-> <<"a", "g", "e">>,
                 kind |-> "string", isPtr |-> FALSE ],
               [ name |-> "UserName", exported |-> TRUE,
                 tag |-> <<"U", "s", "e", "r", "N", "a", "m", "e">>,
                 kind |-> "string", isPtr |-> FALSE ],
               [ name |-> "Note", exported |-> TRUE, tag |-> <<"-">>,
                 kind |-> "string", isPtr |-> TRUE ],
               [ name |-> "Age", exported |-> TRUE, tag |-> <<"a", "g", "e">>,
                 kind |-> "uint8", isPtr |-> FALSE ],
               [ name |-> "Plain", exported |-> TRUE, tag |-> <<>>,
                 kind |-> "int64", isPtr |-> FALSE ],
               [ name |-> "Score", exported |-> TRUE,
                 tag |-> <<"s", "c", "o", "r", "e", ",", "o", "m", "i", "t">>,
                 kind |-> "int64", isPtr |-> TRUE ],
               [ name |-> "Active", exported |-> TRUE,
                 tag |-> <<"a", "c", "t", "i", "v", "e">>,
                 kind |-> "bool", isPtr |-> FALSE ] >> ]
      [] typ = "Tagged" ->
           [ kind |-> "struct", name |-> <<"T", "a", "g", "g", "e", "d">>,
             tableNamer |-> <<>>,
             fields |-> <<
               [ name |-> "A", exported |-> TRUE,
                 tag |-> <<",", "o", "m", "i", "t">>,
                 kind |-> "string", isPtr |-> FALSE ],
               [ name |-> "B", exported |-> TRUE, tag |-> <<"b">>,
                 kind |-> "int64", isPtr |-> TRUE ],
               [ name |-> "C", exported |-> TRUE,
                 tag |-> <<"-", ",", "o", "m", "i", "t">>,
                 kind |-> "string", isPtr |-> FALSE ],
               [ name |-> "d", exported |-> FALSE, tag |-> <<"d">>,
                 kind |-> "bool", isPtr |-> FALSE ] >> ]
      [] typ \in PointerTypes ->
           [ kind |-> "ptr", name |-> <<>>, tableNamer |-> <<>>, fields |-> <<>> ]
      [] OTHER ->
           [ kind |-> "int", name |-> <<"i", "n", "t">>, tableNamer |-> <<>>,
             fields |-> <<>> ]

\* var val T
ZeroRecord(typ) ==
    [ i \in 1..Len(TypeDecl(typ).fields) |->
        ZeroField(TypeDecl(typ).fields[i].kind, TypeDecl(typ).fields[i].isPtr) ]

\* the loop of getStructInfo over typ.Field(i): i counts from 0 as in the code
StructFields(typ) ==
    LET decl == TypeDecl(typ).fields
        mapped(i) == /\ decl[i].exported
                     /\ decl[i].tag # <<>>
                     /\ decl[i].tag # <<"-">>
    IN  Flatten([ i \in 1..Len(decl) |->
                    IF mapped(i)
                      THEN << [ name |-> decl[i].name,
                                dbColumn |-> FirstPart(decl[i].tag),
                                index |-> i - 1,
                                isPtr |-> decl[i].isPtr,
                                fieldType |-> decl[i].kind ] >>
                      ELSE <<>> ])

NoInfo == [fields |-> <<>>, tableName |-> <<>>]

\* a typ.Elem() taken as long as the type is a pointer
RECURSIVE UnwrapEveryLevel(_)
UnwrapEveryLevel(typ) ==
    IF TypeDecl(typ).kind = "ptr" THEN UnwrapEveryLevel(Elem(typ)) ELSE typ

\* if typ.Kind() == reflect.Ptr { typ = typ.Elem() }
Unwrap(typ) == IF TypeDecl(typ).kind = "ptr" THEN Elem(typ) ELSE typ

\* the info getStructInfo builds for a struct type on a cache miss
BuildStructInfo(typ) ==
    [ fields |-> StructFields(typ),
      tableName |-> IF TypeDecl(typ).tableNamer # <<>>
                      THEN TypeDecl(typ).tableNamer
                      ELSE toSnakeCase(TypeDecl(typ).name) ]

\* a Store that adds the fields to those of an entry already in the cache
StoreStructInfoAppends(cache, typ, info) ==
    IF typ \in DOMAIN cache
      THEN (typ :> [info EXCEPT !.fields = cache[typ].fields \o @]) @@ cache
      ELSE (typ :> info) @@ cache

\* structCache.Store(typ, info): the last write stays
StoreStructInfo(cache, typ, info) == (typ :> info) @@ cache

\* getStructInfo(typ) against the cache: the error, the info, the cache after
getStructInfo(typ, cache) ==
    LET t == Unwrap(typ) IN
    IF TypeDecl(t).kind # "struct"
      THEN [err |-> "ErrInvalidModel", info |-> NoInfo, cache |-> cache]
    ELSE IF t \in DOMAIN cache
      THEN [err |-> "", info |-> cache[t], cache |-> cache]
    ELSE [ err |-> "", info |-> BuildStructInfo(t),
           cache |-> StoreStructInfo(cache, t, BuildStructInfo(t)) ]

(***************************************************************************)
(* getStructInfo called from several goroutines.  structCache is a         *)
(* sync.Map: Load and Store are atomic, a call that missed builds its info *)
(* and stores it, whatever was stored in between.                          *)
(***************************************************************************)

Goroutines == {"g1", "g2"}

MetaTypes == {"User", "*User", "**User", "Tagged", "int"}

MetaIdle ==
    /\ meta = [g \in Goroutines |-> [pc |-> "idle", typ |-> "int"]]
    /\ resolved = <<>>

\* getStructInfo up to structCache.Load: an invalid type and a hit return
GetStructInfoLoad(g) ==
    /\ meta[g].pc = "idle"
    /\ Len(resolved) + Cardinality({h \in Goroutines : meta[h].pc = "miss"})
         < MaxResolves
    /\ \E typ \in MetaTypes :
         LET t == Unwrap(typ) IN
         IF TypeDecl(t).kind # "struct"
           THEN /\ resolved' = Append(resolved, [g |-> g, typ |-> typ,
                                  err |-> "ErrInvalidModel", info |-> NoInfo,
                                  how |-> "invalid"])
                /\ UNCHANGED meta
         ELSE IF t \in DOMAIN structCache
           THEN /\ resolved' = Append(resolved, [g |-> g, typ |-> typ,
                                  err |-> "", info |-> structCache[t],
                                  how |-> "hit"])
                /\ UNCHANGED meta
         ELSE /\ meta' = [meta EXCEPT ![g] = [pc |-> "miss", typ |-> typ]]
              /\ UNCHANGED resolved
    /\ UNCHANGED <<builderVars, coerceVars, scanVars, txVars, stmtVars, fragVars, colVars, execVars, lateVars>>

\* getStructInfo after a miss: the info is built, stored and returned
GetStructInfoStore(g) ==
    /\ meta[g].pc = "miss"
    /\ LET t == Unwrap(meta[g].typ)
           info == BuildStructInfo(t)
           stored == StoreStructInfo(structCache, t, info)
       IN  /\ structCache' = stored
           /\ resolved' = Append(resolved, [g |-> g, typ |-> meta[g].typ,
                                            err |-> "", info |-> stored[t],
                                            how |-> "built"])
    /\ meta' = [meta EXCEPT ![g] = [pc |-> "idle", typ |-> "int"]]
    /\ UNCHANGED <<builderVars, coerceVars, columnMapCache, pool, scan, txVars, stmtVars, fragVars, colVars, execVars, lateVars>>

MetaNext == \E g \in Goroutines : GetStructInfoLoad(g) \/ GetStructInfoStore(g)

(***************************************************************************)
(* The column map and its cache.                                           *)
(***************************************************************************)

\* fastColumnKey: the names joined with ","
fastColumnKey(columns) ==
    Flatten([ i \in 1..Len(columns) |->
                IF i > 1 THEN <<",">> \o columns[i] ELSE columns[i] ])

\* the loop columnMap[lower(col)] = i: the last column of a name wins
BuildColumnMap(columns) ==
    [ k \in {cachedToLower(columns[i]) : i \in 1..Len(columns)} |->
        (CHOOSE i \in 1..Len(columns) :
            /\ cachedToLower(columns[i]) = k
            /\ \A j \in 1..Len(columns) : cachedToLower(columns[j]) = k => j <= i) - 1 ]

\* columnMapCache.getColumnMap: the map returned and the store afterwards
getColumnMap(store, columns) ==
    LET key == fastColumnKey(columns)
    IN  IF key \in DOMAIN store
          THEN [columnMap |-> store[key], store |-> store]
          ELSE [ columnMap |-> BuildColumnMap(columns),
                 store |-> (key :> BuildColumnMap(columns)) @@ store ]

(***************************************************************************)
(* The scan buffer pool.  A buffer is the backing array of values, the     *)
(* length the values slice is cut to, and the ptrs slice: ptrs[i] is the   *)
(* slot of values it points at.                                            *)
(***************************************************************************)

\* make([]interface{}, 0, 16)
initialBufferCap == 16

NewScanBuffer(cap, len) ==
    [ values |-> [i \in 1..cap |-> Null], ptrs |-> [i \in 1..len |-> 0],
      len |-> len ]

NoBuffer == NewScanBuffer(0, 0)

\* ScanBufferPool.Get(size) on the buffer sync.Pool handed out
Get(pooled, size) ==
    LET buf == IF Len(pooled.values) < size
                 THEN NewScanBuffer(size, size)
                 ELSE [pooled EXCEPT !.len = size]
    IN  [buf EXCEPT !.ptrs = [i \in 1..buf.len |-> i]]

\* a Put that hands the buffer back as it is
PutKeepsValues(buf) == buf

\* ScanBufferPool.Put(buf): the buffer as it goes back
Put(buf) ==
    [buf EXCEPT !.values = [i \in 1..Len(buf.values) |->
                              IF i <= buf.len THEN Null ELSE buf.values[i]]]

(***************************************************************************)
(* scanRows.  impl tells the two scanRows of the repository apart:         *)
(* "optimized" is scanRowsOptimized with the pooled buffer and the cached  *)
(* column map, "legacy" is the scanRows that allocates per row.            *)
(***************************************************************************)

Impls == {"optimized", "legacy"}

\* a rows.Scan that leaves the destination of a NULL column as it was
RowsScanSkipsNull(buf, row) ==
    IF buf.len # Len(row)
      THEN [err |-> "sql: expected destination arguments", buf |-> buf]
      ELSE [ err |-> "",
             buf |-> [buf EXCEPT !.values =
                        [ j \in 1..Len(buf.values) |->
                            IF \E i \in 1..buf.len : buf.ptrs[i] = j /\ row[i].t # "nil"
                              THEN row[CHOOSE i \in 1..buf.len : buf.ptrs[i] = j]
                              ELSE buf.values[j] ]] ]

\* rows.Scan(dest...): every destination receives its column, NULL included
RowsScan(buf, row) ==
    IF buf.len # Len(row)
      THEN [err |-> "sql: expected destination arguments", buf |-> buf]
      ELSE [ err |-> "",
             buf |-> [buf EXCEPT !.values =
                        [ j \in 1..Len(buf.values) |->
                            IF \E i \in 1..buf.len : buf.ptrs[i] = j
                              THEN row[CHOOSE i \in 1..buf.len : buf.ptrs[i] = j]
                              ELSE buf.values[j] ]] ]

\* the key a field is looked up under in columnMap
LookupKey(impl, field) ==
    IF impl = "legacy" THEN ToLower(field.dbColumn) ELSE field.dbColumn

\* fieldVal.CanSet(): val is addressable, so every exported field can be set
CanSet(typ, index) == TypeDecl(typ).fields[index + 1].exported

\* a loop body that allocates the optional field for a NULL as for a value
ScanFieldAllocatesOnNull(fieldVal, field, scanVal, canSet, und) ==
    IF ~canSet THEN [field |-> fieldVal, panic |-> FALSE, err |-> ""]
    ELSE IF scanVal = Null
      THEN [ field |-> IF field.isPtr THEN Ptr(Zero(field.fieldType)) ELSE fieldVal,
             panic |-> FALSE, err |-> "" ]
    ELSE setFieldValue(fieldVal, scanVal, field.fieldType, field.isPtr, canSet, und)

\* the body of the loop over info.fields for one field
ScanField(fieldVal, field, scanVal, canSet, und) ==
    IF ~canSet THEN [field |-> fieldVal, panic |-> FALSE, err |-> ""]
    ELSE IF scanVal = Null
      THEN [ field |-> IF field.isPtr THEN NilPtr ELSE fieldVal,
             panic |-> FALSE, err |-> "" ]
    ELSE setFieldValue(fieldVal, scanVal, field.fieldType, field.isPtr, canSet, und)

\* the loop over info.fields from field k on; values are the scanned values
RECURSIVE PopulateFrom(_, _, _, _, _, _, _, _)
PopulateFrom(val, typ, fields, k, columnMap, values, impl, und) ==
    IF k > Len(fields) THEN [val |-> val, panic |-> FALSE, err |-> ""]
    ELSE IF LookupKey(impl, fields[k]) \notin DOMAIN columnMap
      THEN PopulateFrom(val, typ, fields, k + 1, columnMap, values, impl, und)
    ELSE
      LET field == fields[k]
          colIdx == columnMap[LookupKey(impl, field)]
          r == ScanField(val[field.index + 1], field, values[colIdx + 1],
                         CanSet(typ, field.index), und)
          next == [val EXCEPT ![field.index + 1] = r.field]
      IN  IF r.panic \/ r.err # ""
            THEN [val |-> next, panic |-> r.panic, err |-> r.err]
            ELSE PopulateFrom(next, typ, fields, k + 1, columnMap, values, impl, und)

NilResult == [isNil |-> TRUE, items |-> <<>>]

\* scanRow and RawQuery.First after scanRows returned: the record and the error
scanRow(typ, results, err) ==
    IF err # "" THEN [val |-> ZeroRecord(typ), err |-> err]
    ELSE IF Len(results.items) = 0
      THEN [val |-> ZeroRecord(typ), err |-> "ErrNoRows"]
    ELSE [val |-> results.items[1], err |-> ""]

\* no single-row accessor has returned
NoFirst == [val |-> <<>>, err |-> ""]

\* the scans of the model: a type T and the column names of the result set
Scenarios ==
    { <<"User", << <<"i", "d">>, <<"n", "a", "m", "e">> >> >>,
      <<"User", << <<"N", "a", "m", "e">>, <<"I", "D">>,
                   <<"e", "m", "a", "i", "l">> >> >>,
      <<"Account", << <<"u", "s", "e", "r", "n", "a", "m", "e">>,
                      <<"a", "g", "e">> >> >>,
      <<"Account", << <<"U", "S", "E", "R", "N", "A", "M", "E">> >> >>,
      <<"Account", << <<"U", "s", "e", "r", "N", "a", "m", "e">>,
                      <<"s", "c", "o", "r", "e">> >> >>,
      <<"Account", << <<"a", "c", "t", "i", "v", "e">> >> >>,
      <<"int", << <<"i", "d">> >> >> }

PersonNames == <<"Alice", "Bob", "Carol", "Dave">>

\* what the driver may deliver in row r for a column
ColumnValues(column, r) ==
    LET c == ToLower(column)
        person == PersonNames[((r - 1) % Len(PersonNames)) + 1]
    IN  CASE c = <<"i", "d">> -> {I(r)}
          [] c = <<"n", "a", "m", "e">> -> {S(person), Null}
          [] c = <<"e", "m", "a", "i", "l">> -> {S(person \o "@example.com"), Null}
          [] c = <<"u", "s", "e", "r", "n", "a", "m", "e">> -> {S(person)}
          [] c = <<"a", "g", "e">> -> {I(20 + r), I(-r)}
          [] c = <<"s", "c", "o", "r", "e">> -> {I(100 * r), Null}
          [] OTHER -> {B(TRUE), I(1)}

RECURSIVE RowSet(_, _)
RowSet(columns, r) ==
    IF columns = <<>> THEN {<<>>}
    ELSE { <<v>> \o rest : v \in ColumnValues(Head(columns), r),
                           rest \in RowSet(Tail(columns), r) }

ScanIdle ==
    /\ structCache = <<>>
    /\ columnMapCache = <<>>
    /\ pool = <<>>
    /\ scan = [ pc |-> "idle", impl |-> "optimized", typ |-> "User",
                info |-> NoInfo, columns |-> <<>>, columnMap |-> <<>>,
                buf |-> NoBuffer, fetched |-> <<>>, result |-> NilResult,
                err |-> "", first |-> NoFirst,
                acquired |-> 0, released |-> 0, recycled |-> FALSE,
                n |-> 0 ]

ScanInit ==
    /\ structCache = <<>>
    /\ columnMapCache = <<>>
    /\ pool = <<>>
    /\ scan \in { [ pc |-> "idle", impl |-> impl, typ |-> "User",
                    info |-> NoInfo, columns |-> <<>>, columnMap |-> <<>>,
                    buf |-> NoBuffer, fetched |-> <<>>, result |-> NilResult,
                    err |-> "", first |-> NoFirst,
                acquired |-> 0, released |-> 0, recycled |-> FALSE,
                n |-> 0 ] : impl \in Impls }

\* the return of scanRows: the deferred Put hands the buffer back
\* a return whose Put is a last statement of the function, not a deferred one
ReturnPutsOnSuccessOnly(sc, result, err) ==
    /\ scan' = [sc EXCEPT !.pc = "done", !.result = result, !.err = err,
                          !.buf = NoBuffer,
                          !.first = scanRow(sc.typ, result, err),
                          !.released = IF sc.impl = "optimized" /\ sc.pc = "rows"
                                            /\ err = ""
                                         THEN @ + 1 ELSE @]
    /\ pool' = IF sc.impl = "optimized" /\ sc.pc = "rows" /\ err = ""
                 THEN Append(pool, Put(sc.buf)) ELSE pool

Return(sc, result, err) ==
    /\ scan' = [sc EXCEPT !.pc = "done", !.result = result, !.err = err,
                          !.buf = NoBuffer,
                          !.first = scanRow(sc.typ, result, err),
                          !.released = IF sc.impl = "optimized" /\ sc.pc = "rows"
                                         THEN @ + 1 ELSE @]
    /\ pool' = IF sc.impl = "optimized" /\ sc.pc = "rows"
                 THEN Append(pool, Put(sc.buf)) ELSE pool

\* scanRows up to its loop: getStructInfo, rows.Columns(), the column map,
\* the result slice and the buffer
ScanBegin ==
    /\ scan.pc \in {"idle", "done", "panicked"}
    /\ scan.n < MaxScans
    /\ \E scenario \in Scenarios, columnsFail \in BOOLEAN, recycle \in BOOLEAN :
         LET typ == scenario[1]
             columns == scenario[2]
             si == getStructInfo(typ, structCache)
             cm == getColumnMap(columnMapCache, columns)
             sc == [ pc |-> "begin", impl |-> scan.impl, typ |-> typ,
                     info |-> si.info, columns |-> <<>>, columnMap |-> <<>>,
                     buf |-> NoBuffer, fetched |-> <<>>, result |-> NilResult,
                     err |-> "", first |-> NoFirst,
                acquired |-> 0, released |-> 0, recycled |-> FALSE,
                n |-> scan.n + 1 ]
         IN  /\ structCache' = si.cache
             /\ IF si.err # ""
                  THEN /\ Return(sc, NilResult, si.err)
                       /\ UNCHANGED columnMapCache
                ELSE IF columnsFail
                  THEN /\ Return(sc, NilResult, "sql: Rows are closed")
                       /\ UNCHANGED columnMapCache
                ELSE IF scan.impl = "legacy"
                  THEN /\ scan' = [sc EXCEPT !.pc = "rows", !.columns = columns,
                                     !.columnMap = BuildColumnMap(columns)]
                       /\ UNCHANGED <<columnMapCache, pool>>
                ELSE
                  /\ columnMapCache' = cm.store
                  /\ IF recycle /\ pool # <<>>
                       THEN /\ pool' = Tail(pool)
                            /\ scan' = [sc EXCEPT !.pc = "rows", !.columns = columns,
                                          !.columnMap = cm.columnMap,
                                          !.result = [isNil |-> FALSE, items |-> <<>>],
                                          !.acquired = 1,
                                          !.recycled = TRUE,
                                          !.buf = Get(Head(pool), Len(columns))]
                       ELSE /\ pool' = <<>>
                            /\ scan' = [sc EXCEPT !.pc = "rows", !.columns = columns,
                                          !.columnMap = cm.columnMap,
                                          !.result = [isNil |-> FALSE, items |-> <<>>],
                                          !.acquired = 1,
                                          !.buf = Get(NewScanBuffer(initialBufferCap, 0),
                                                      Len(columns))]
    /\ UNCHANGED <<builderVars, coerceVars, restVars>>

\* one turn of the loop: rows.Next() is true, rows.Scan, the fields, append
ScanRow ==
    /\ scan.pc = "rows"
    /\ Len(scan.fetched) < MaxRows
    /\ \E row \in RowSet(scan.columns, Len(scan.fetched) + 1),
          scanFail \in BOOLEAN, und \in UndefinedOutcomes :
         LET sc == [scan EXCEPT !.fetched = Append(@, row)]
             scanned == IF scan.impl = "legacy"
                          THEN [err |-> "", buf |-> scan.buf]
                          ELSE RowsScan(scan.buf, row)
             values == IF scan.impl = "legacy" THEN row
                       ELSE SubSeq(scanned.buf.values, 1, scanned.buf.len)
             p == PopulateFrom(ZeroRecord(scan.typ), scan.typ, scan.info.fields, 1,
                               scan.columnMap, values, scan.impl, und)
         IN  IF scanFail \/ scanned.err # ""
               THEN Return(sc, NilResult,
                           IF scan.impl = "legacy" THEN "driver: bad connection"
                           ELSE "sqlblade: failed to scan row: driver: bad connection")
             ELSE IF p.panic
               THEN /\ scan' = [sc EXCEPT !.pc = "panicked", !.buf = NoBuffer,
                                          !.result = NilResult,
                                          !.released = IF scan.impl = "optimized"
                                                         THEN @ + 1 ELSE @]
                    /\ pool' = IF scan.impl = "optimized"
                                 THEN Append(pool, Put(scanned.buf)) ELSE pool
             ELSE IF p.err # ""
               THEN Return([sc EXCEPT !.buf = scanned.buf], NilResult,
                           IF scan.impl = "legacy" THEN p.err
                           ELSE "sqlblade: failed to set field: " \o p.err)
             ELSE /\ scan' = [sc EXCEPT !.buf = scanned.buf,
                                        !.result = [isNil |-> FALSE,
                                                    items |-> Append(@.items, p.val)]]
                  /\ UNCHANGED pool
    /\ UNCHANGED <<builderVars, coerceVars, structCache, columnMapCache, restVars>>

\* an end of the loop that returns the records built so far with the error
ScanEndKeepsRecords ==
    /\ scan.pc = "rows"
    /\ \E rowsFail \in BOOLEAN :
         IF rowsFail
           THEN Return(scan, scan.result, "driver: rows error")
           ELSE Return(scan, scan.result, "")
    /\ UNCHANGED <<builderVars, coerceVars, structCache, columnMapCache, restVars>>

\* rows.Next() is false: rows.Err() and the return
ScanEnd ==
    /\ scan.pc = "rows"
    /\ \E rowsFail \in BOOLEAN :
         IF rowsFail
           THEN Return(scan, NilResult, "driver: rows error")
           ELSE Return(scan, scan.result, "")
    /\ UNCHANGED <<builderVars, coerceVars, structCache, columnMapCache, restVars>>

ScanNext == ScanBegin \/ ScanRow \/ ScanEnd

(***************************************************************************)
(* Reading a scan back against the declaration of the record type: the     *)
(* mapped fields as declared, the result columns that name a field when    *)
(* case is ignored on both sides, and what a field holds once a raw value  *)
(* was coerced into it.                                                    *)
(***************************************************************************)

Decl(typ) == TypeDecl(typ).fields

IsMapped(d) == d.exported /\ d.tag # <<>> /\ d.tag # <<"-">>

MatchingColumns(d, columns) ==
    { c \in 1..Len(columns) : ToLower(columns[c]) = ToLower(FirstPart(d.tag)) }

ExpectedField(d, value) ==
    IF value.t = "nil" THEN ZeroField(d.kind, d.isPtr)
    ELSE setFieldValue(ZeroField(d.kind, d.isPtr), value, d.kind, d.isPtr,
                       TRUE, "wrap").field

\* scanRows is in its loop or has returned without an error
ScanNormal == scan.pc \in {"rows", "done"} /\ scan.err = ""

ScanReturned == scan.pc = "done" /\ scan.err = ""

\* the record the fields of row i alone give
RecordOfRow(i) ==
    PopulateFrom(ZeroRecord(scan.typ), scan.typ, scan.info.fields, 1,
                 scan.columnMap, scan.fetched[i], scan.impl, "wrap").val

\* C5: scanning n rows returns n records in result-set order, and record i
\* holds values of row i only: no value of another row reaches it through
\* the reused scan buffer.
C5_RecordsFollowRowsInOrder ==
    ScanNormal =>
      /\ Len(scan.result.items) = Len(scan.fetched)
      /\ \A i \in 1..Len(scan.result.items) : scan.result.items[i] = RecordOfRow(i)

\* a pooled-buffer scan returned two different records, and a column that
\* held a value in row 1 is NULL in row 2
C5_Witness ==
    /\ ScanReturned
    /\ scan.impl = "optimized"
    /\ Len(scan.result.items) = 2
    /\ scan.result.items[1] # scan.result.items[2]
    /\ scan.result.items[1] # ZeroRecord(scan.typ)
    /\ \E c \in 1..Len(scan.columns) :
         scan.fetched[1][c].t # "nil" /\ scan.fetched[2][c].t = "nil"

\* C6: matching a column to a field ignores case on both sides: a field
\* annotated "UserName" is populated from a column named "username",
\* "USERNAME" or "UserName" alike.
C6_MatchingIgnoresCaseOnBothSides ==
    ScanReturned =>
      \A i \in 1..Len(scan.result.items), k \in 1..Len(Decl(scan.typ)) :
        \A c \in MatchingColumns(Decl(scan.typ)[k], scan.columns) :
          IsMapped(Decl(scan.typ)[k]) =>
            scan.result.items[i][k] = ExpectedField(Decl(scan.typ)[k], scan.fetched[i][c])

\* C7: a NULL column leaves an optional field nil and any other field at its
\* zero value; the row is kept and no error comes of it.
C7_NullLeavesNilOrZero ==
    /\ scan.pc = "rows" => Len(scan.result.items) = Len(scan.fetched)
    /\ scan.err \notin { "sqlblade: field cannot be set",
                         "sqlblade: failed to set field: sqlblade: field cannot be set" }
    /\ scan.pc = "panicked" =>
         \E c \in 1..Len(scan.columns) :
           scan.fetched[Len(scan.fetched)][c].t # "nil"
    /\ ScanNormal =>
         \A i \in 1..Len(scan.result.items), k \in 1..Len(Decl(scan.typ)) :
           \A c \in MatchingColumns(Decl(scan.typ)[k], scan.columns) :
             (IsMapped(Decl(scan.typ)[k]) /\ scan.fetched[i][c].t = "nil") =>
               scan.result.items[i][k] =
                 ZeroField(Decl(scan.typ)[k].kind, Decl(scan.typ)[k].isPtr)

\* a scan returned a record of a row that was NULL both in the column of an
\* optional field and in the column of a field that is not optional
C7_Witness ==
    /\ ScanReturned
    /\ \E i \in 1..Len(scan.result.items) :
         \E k1, k2 \in 1..Len(Decl(scan.typ)) :
           /\ IsMapped(Decl(scan.typ)[k1]) /\ Decl(scan.typ)[k1].isPtr
           /\ IsMapped(Decl(scan.typ)[k2]) /\ ~Decl(scan.typ)[k2].isPtr
           /\ \E c \in MatchingColumns(Decl(scan.typ)[k1], scan.columns) :
                scan.fetched[i][c].t = "nil"
           /\ \E c \in MatchingColumns(Decl(scan.typ)[k2], scan.columns) :
                scan.fetched[i][c].t = "nil"

\* the result columns name mapped fields of the type, and not all of them
IsStrictSubset(columns, typ) ==
    /\ \A c \in 1..Len(columns) :
         \E k \in 1..Len(Decl(typ)) :
           IsMapped(Decl(typ)[k]) /\ c \in MatchingColumns(Decl(typ)[k], columns)
    /\ \E k \in 1..Len(Decl(typ)) :
         IsMapped(Decl(typ)[k]) /\ MatchingColumns(Decl(typ)[k], columns) = {}

\* C8: when the result columns are a strict subset of the mapped columns of
\* the type, exactly the fields whose column is present are assigned and
\* every other field is left at its zero value.
C8_StrictSubsetAssignsPresentFields ==
    (ScanReturned /\ IsStrictSubset(scan.columns, scan.typ)) =>
      \A i \in 1..Len(scan.result.items), k \in 1..Len(Decl(scan.typ)) :
        LET d == Decl(scan.typ)[k]
        IN  IF IsMapped(d) /\ MatchingColumns(d, scan.columns) # {}
              THEN \A c \in MatchingColumns(d, scan.columns) :
                     scan.result.items[i][k] = ExpectedField(d, scan.fetched[i][c])
              ELSE scan.result.items[i][k] = ZeroField(d.kind, d.isPtr)

(***************************************************************************)
(* Reading one setFieldValue call back.                                    *)
(***************************************************************************)

\* the first call on the field has been made with this value
FirstCall == Len(co.values) = 1

\* what the field holds, seen through the pointer of an optional field
FieldContent(field, kind) ==
    IF field.t = "nilptr" THEN Zero(kind)
    ELSE IF field.t = "ptr" THEN field.v ELSE field

\* C9: a negative 64-bit integer coerced into a field of an unsigned kind
\* leaves the field at zero: it is not wrapped modulo 2^w.
C9_NegativeIntoUnsignedLeavesZero ==
    (FirstCall /\ co.kind \in UnsignedKinds /\ co.values[1].t = "int64"
       /\ co.values[1].v < 0) =>
      /\ co.pc = "returned"
      /\ FieldContent(co.field, co.kind) = Zero(co.kind)

\* the scalar field kinds, and the pairs the coercion supports
ScalarKinds == SignedKinds \cup UnsignedKinds \cup {"float64", "string", "bool"}

IsSupported(value, kind) ==
    \/ kind \in SignedKinds \cup UnsignedKinds \cup {"float64"}
         /\ value.t \in {"int64", "float64"}
    \/ kind = "string" /\ value.t = "string"
    \/ kind = "bool" /\ value.t = "bool"

\* C10: setFieldValue on a driver value and a field of a scalar kind, optional
\* or not, never panics, and a pair without a supported conversion leaves the
\* field at its zero value.
C10_NoPanicAndUnsupportedLeavesZero ==
    (FirstCall /\ co.kind \in ScalarKinds /\ co.values[1].t # "nil") =>
      /\ co.pc = "returned"
      /\ ~IsSupported(co.values[1], co.kind) =>
           co.field = ZeroField(co.kind, co.isPtr)

\* C11: a scan of zero rows returns an empty sequence that is not nil and
\* no error, and the single-row accessor over it returns the zero record
\* with ErrNoRows.
C11_NoRowsGiveEmptySequenceAndErrNoRows ==
    (ScanReturned /\ scan.fetched = <<>>) =>
      /\ ~scan.result.isNil
      /\ scan.result.items = <<>>
      /\ scan.first = [val |-> ZeroRecord(scan.typ), err |-> "ErrNoRows"]

\* the errors a scan stops with: metadata resolution, column introspection,
\* a row scan, the terminal check of the result set
ScanErrors ==
    { "ErrInvalidModel", "sql: Rows are closed", "driver: bad connection",
      "sqlblade: failed to scan row: driver: bad connection", "driver: rows error" }

\* C12: a scan that fails in metadata resolution, column introspection, a
\* row scan or the terminal error check returns the error and no records:
\* the records of earlier rows are not returned with it.
C12_ErrorReturnsNoRecords ==
    (scan.pc = "done" /\ scan.err # "") =>
      /\ scan.err \in ScanErrors
      /\ scan.result.isNil
      /\ scan.result.items = <<>>
      /\ scan.first = [val |-> ZeroRecord(scan.typ), err |-> scan.err]

\* the terminal check failed in the pooled scan after two rows had been
\* scanned into records
C12_Witness ==
    /\ scan.pc = "done"
    /\ scan.impl = "optimized"
    /\ scan.err = "driver: rows error"
    /\ Len(scan.fetched) = 2

\* C19: the buffer scanRowsOptimized took from the pool goes back exactly
\* once on every way out of the call, and the call holds no buffer after
\* it went back.
C19_BufferReturnedExactlyOnce ==
    /\ scan.pc = "rows" =>
         /\ scan.released = 0
         /\ scan.impl = "optimized" => scan.acquired = 1 /\ scan.buf # NoBuffer
    /\ scan.pc \in {"done", "panicked"} =>
         /\ scan.released = scan.acquired
         /\ scan.buf = NoBuffer
    /\ scan.released = 1 =>
         /\ pool # <<>>
         /\ \A i \in 1..Len(pool[Len(pool)].values) :
              pool[Len(pool)].values[i] = Null

\* the pooled scan took a buffer, scanned a row and left by a row-scan error
C19_Witness ==
    /\ scan.pc = "done"
    /\ scan.err = "sqlblade: failed to scan row: driver: bad connection"
    /\ Len(scan.fetched) = 2
    /\ scan.acquired = 1
    /\ scan.released = 1

(***************************************************************************)
(* Reading the getStructInfo calls back.                                   *)
(***************************************************************************)

\* C13: any two getStructInfo calls for a record type, one after the other
\* or racing to fill the cache, return the same table name and the same
\* field list, and so does the cache whichever Store came last.
C13_SameMetadataForSameType ==
    \A i, j \in 1..Len(resolved) :
      (/\ resolved[i].err = ""
       /\ resolved[j].err = ""
       /\ Unwrap(resolved[i].typ) = Unwrap(resolved[j].typ)) =>
        /\ resolved[i].info.tableName = resolved[j].info.tableName
        /\ resolved[i].info.fields = resolved[j].info.fields
        /\ structCache[Unwrap(resolved[i].typ)] = resolved[i].info

\* two goroutines both missed the cache for one type and both stored, and a
\* third call hit the cache afterwards
C13_Witness ==
    \E i, j, k \in 1..Len(resolved) :
      /\ i < j /\ j < k
      /\ resolved[i].g # resolved[j].g
      /\ resolved[i].how = "built" /\ resolved[j].how = "built"
      /\ resolved[k].how = "hit"
      /\ Unwrap(resolved[i].typ) = Unwrap(resolved[j].typ)
      /\ Unwrap(resolved[j].typ) = Unwrap(resolved[k].typ)

\* the column designator of an annotation: its first comma-separated segment
Designator(tag) == FirstPart(tag)

\* C14: a field is in the field list exactly if it is exported and the column
\* designator of its db annotation is neither empty nor "-"; an annotation
\* such as ",option" gives no entry.
C14_FieldListedIffDesignated ==
    \A i \in 1..Len(resolved) :
      resolved[i].err = "" =>
        \A k \in 1..Len(Decl(Unwrap(resolved[i].typ))) :
          LET d == Decl(Unwrap(resolved[i].typ))[k]
              listed == \E f \in 1..Len(resolved[i].info.fields) :
                          resolved[i].info.fields[f].index = k - 1
          IN  listed <=> (d.exported /\ Designator(d.tag) # <<>>
                                     /\ Designator(d.tag) # <<"-">>)

\* C15: getStructInfo on a type that is no struct after one pointer level is
\* taken off returns ErrInvalidModel and no metadata, and stores nothing.
C15_NonStructIsInvalidModel ==
    /\ \A i \in 1..Len(resolved) :
         TypeDecl(Unwrap(resolved[i].typ)).kind # "struct" =>
           /\ resolved[i].err = "ErrInvalidModel"
           /\ resolved[i].info = NoInfo
    /\ \A i \in 1..Len(resolved) :
         resolved[i].typ \in {"int", "**User"} => resolved[i].how = "invalid"
    /\ \A t \in DOMAIN structCache : TypeDecl(t).kind = "struct"

\* a primitive and a pointer to a pointer were refused after a struct type
\* had been cached
C15_Witness ==
    /\ Len(resolved) = 3
    /\ resolved[1].how = "built"
    /\ resolved[2].typ = "int" /\ resolved[2].err = "ErrInvalidModel"
    /\ resolved[3].typ = "**User" /\ resolved[3].err = "ErrInvalidModel"
    /\ DOMAIN structCache = {Unwrap(resolved[1].typ)}

(***************************************************************************)
(* WithTransaction and WithTransactionContext.  An error is [is, text]: the *)
(* sentinels errors.Is finds in it and its message; nil is NilErr.  The    *)
(* functions have an unnamed result: return err copies err into ret, the   *)
(* deferred function then runs and assigns to the local err only.          *)
(***************************************************************************)

NilErr == [is |-> {}, text |-> ""]

NewErr(text) == [is |-> {}, text |-> text]

\* fmt.Errorf("%w: %v", ErrTransactionCommit, commitErr)
WrapCommitErr(commitErr) ==
    [ is |-> {"ErrTransactionCommit"},
      text |-> "sqlblade: transaction commit failed: " \o commitErr.text ]

\* fmt.Errorf("transaction rollback failed: %w (original error: %v)", rbErr, err)
WrapRollbackErr(rbErr, err) ==
    [ is |-> rbErr.is,
      text |-> "transaction rollback failed: " \o rbErr.text
                 \o " (original error: " \o err.text \o ")" ]

TxVariants == {"WithTransaction", "WithTransactionContext"}

\* what fn does: return nil, return an error, panic
FnOutcomes == {"nil", "error", "panic"}

TxIdle ==
    /\ txn = [ pc |-> "idle", variant |-> "WithTransaction", err |-> NilErr,
               ret |-> NilErr, panicking |-> FALSE, calls |-> <<>> ]
    /\ txDone = <<>>

\* a deferred function that commits whenever fn did not panic
DeferredCallCommitsOnError(panicking, err) ==
    IF panicking THEN "Rollback" ELSE "Commit"

\* the branch the deferred function takes: what it invokes on tx
DeferredCall(panicking, err) ==
    IF panicking THEN "Rollback"
    ELSE IF err # NilErr THEN "Rollback"
    ELSE "Commit"

\* tx, err := db.Begin() / db.BeginTx(ctx, nil), and the return on its error
TxBegin ==
    /\ txn.pc \in {"idle", "returned", "panicked"}
    /\ Len(txDone) < MaxTransactions
    /\ \E variant \in TxVariants, beginFail \in BOOLEAN :
         IF beginFail
           THEN /\ txn' = [ pc |-> "returned", variant |-> variant,
                            err |-> NewErr("driver: begin failed"),
                            ret |-> NewErr("driver: begin failed"),
                            panicking |-> FALSE, calls |-> <<>> ]
                /\ txDone' = Append(txDone,
                      [ variant |-> variant, began |-> FALSE, fn |-> "none",
                        calls |-> <<>>, callFailed |-> FALSE, panicked |-> FALSE,
                        ret |-> NewErr("driver: begin failed") ])
           ELSE /\ txn' = [ pc |-> "fn", variant |-> variant, err |-> NilErr,
                            ret |-> NilErr, panicking |-> FALSE,
                            calls |-> <<"Begin">> ]
                /\ UNCHANGED txDone
    /\ UNCHANGED <<builderVars, coerceVars, scanVars, metaVars, stmtVars, fragVars, colVars, execVars, lateVars>>

\* err = fn(tx); return err: fn runs to its end, the result is set
TxFn ==
    /\ txn.pc = "fn"
    /\ \E outcome \in FnOutcomes :
         txn' = [txn EXCEPT
                   !.pc = "deferred",
                   !.calls = Append(@, "fn:" \o outcome),
                   !.panicking = (outcome = "panic"),
                   !.err = IF outcome = "error" THEN NewErr("fn failed") ELSE NilErr,
                   !.ret = IF outcome = "error" THEN NewErr("fn failed") ELSE NilErr]
    /\ UNCHANGED <<txDone, builderVars, coerceVars, scanVars, metaVars, stmtVars, fragVars, colVars, execVars, lateVars>>

\* the deferred function: recover, Rollback or Commit, and how the call ends
TxDeferred ==
    /\ txn.pc = "deferred"
    /\ \E callFail \in BOOLEAN :
         LET call == DeferredCall(txn.panicking, txn.err)
             calls == Append(txn.calls, call)
             err == IF txn.panicking \/ ~callFail THEN txn.err
                    ELSE IF call = "Rollback"
                      THEN WrapRollbackErr(NewErr("driver: rollback failed"), txn.err)
                    ELSE WrapCommitErr(NewErr("driver: commit failed"))
             \* a panic goes on unless the Rollback failed: then it is dropped
             panicked == txn.panicking /\ ~callFail
         IN  /\ txn' = [txn EXCEPT !.pc = IF panicked THEN "panicked" ELSE "returned",
                                   !.calls = calls, !.err = err]
             /\ txDone' = Append(txDone,
                   [ variant |-> txn.variant, began |-> TRUE,
                     fn |-> txn.calls[2], calls |-> calls, callFailed |-> callFail,
                     panicked |-> panicked, ret |-> txn.ret ])
    /\ UNCHANGED <<builderVars, coerceVars, scanVars, metaVars, stmtVars, fragVars, colVars, execVars, lateVars>>

TxNext == TxBegin \/ TxFn \/ TxDeferred

\* C16: when beginning the transaction succeeds, exactly one of Commit and
\* Rollback is invoked on it, after fn has finished: Commit exactly if fn
\* returned nil without panicking, Rollback if it returned an error or
\* panicked.
C16_ExactlyOneOfCommitAndRollback ==
    /\ \A i \in 1..Len(txDone) :
         txDone[i].began =>
           /\ Len(txDone[i].calls) = 3
           /\ txDone[i].calls[1] = "Begin"
           /\ txDone[i].calls[2] = txDone[i].fn
           /\ txDone[i].calls[3] =
                IF txDone[i].fn = "fn:nil" THEN "Commit" ELSE "Rollback"
    /\ \A k \in 1..Len(txn.calls) :
         txn.calls[k] \in {"Commit", "Rollback"} => k = 3 /\ txn.pc # "deferred"

\* a call committed after fn returned nil and another rolled back after fn
\* panicked
C16_Witness ==
    /\ Len(txDone) = 2
    /\ txDone[1].calls = <<"Begin", "fn:nil", "Commit">>
    /\ txDone[2].calls = <<"Begin", "fn:panic", "Rollback">>

\* C17: when fn returns nil and the Commit fails, the call returns an error
\* that wraps ErrTransactionCommit, not nil.
C17_CommitFailureIsReturned ==
    \A i \in 1..Len(txDone) :
      (/\ txDone[i].began
       /\ txDone[i].fn = "fn:nil"
       /\ txDone[i].callFailed) =>
        /\ txDone[i].ret # NilErr
        /\ "ErrTransactionCommit" \in txDone[i].ret.is

(***************************************************************************)
(* stmtCache.getStmt called from several goroutines.  mu is a              *)
(* sync.RWMutex: the read section (RLock, lookup, RUnlock) excludes a      *)
(* writer, the write section runs from Lock to the deferred Unlock.  A     *)
(* *sql.Stmt is the number of the PrepareContext call that made it.        *)
(***************************************************************************)

StmtCallers == {"c1", "c2", "c3"}

SQLTexts == {"SELECT 1", "SELECT 2"}

\* hashSQL: the SHA-256 of the text, taken to have no collisions
hashSQL(sqlStr) == <<"sha256", sqlStr>>

NoStmt == 0

StmtIdle ==
    /\ stmts = [store |-> <<>>, writer |-> "", prepares |-> <<>>]
    /\ callers = [c \in StmtCallers |-> [pc |-> "idle", sql |-> ""]]
    /\ stmtRets = <<>>

\* a second lookup that never finds the statement
DoubleCheckSkipped(store, hash) == FALSE

\* if stmt, ok := sc.store[hash]; ok, under the write lock
DoubleCheck(store, hash) == hash \in DOMAIN store

\* getStmt up to the end of its read section
GetStmtRead(c) ==
    /\ callers[c].pc = "idle"
    /\ stmts.writer = ""
    /\ Len(stmtRets) + Cardinality({d \in StmtCallers : callers[d].pc # "idle"})
         < MaxGetStmt
    /\ \E sqlStr \in SQLTexts :
         IF hashSQL(sqlStr) \in DOMAIN stmts.store
           THEN /\ stmtRets' = Append(stmtRets,
                      [ c |-> c, sql |-> sqlStr,
                        stmt |-> stmts.store[hashSQL(sqlStr)], err |-> "" ])
                /\ UNCHANGED callers
           ELSE /\ callers' = [callers EXCEPT ![c] = [pc |-> "miss", sql |-> sqlStr]]
                /\ UNCHANGED stmtRets
    /\ UNCHANGED <<stmts, builderVars, coerceVars, scanVars, metaVars, txVars, fragVars, colVars, execVars, lateVars>>

\* sc.mu.Lock()
GetStmtLock(c) ==
    /\ callers[c].pc = "miss"
    /\ stmts.writer = ""
    /\ stmts' = [stmts EXCEPT !.writer = c]
    /\ callers' = [callers EXCEPT ![c].pc = "locked"]
    /\ UNCHANGED <<stmtRets, builderVars, coerceVars, scanVars, metaVars, txVars, fragVars, colVars, execVars, lateVars>>

\* the write section: second lookup, PrepareContext, store, Unlock, return
GetStmtPrepare(c) ==
    /\ callers[c].pc = "locked"
    /\ stmts.writer = c
    /\ \E prepareFail \in BOOLEAN :
         LET hash == hashSQL(callers[c].sql)
             id == Len(stmts.prepares) + 1
         IN  IF DoubleCheck(stmts.store, hash)
               THEN /\ stmts' = [stmts EXCEPT !.writer = ""]
                    /\ stmtRets' = Append(stmtRets,
                          [ c |-> c, sql |-> callers[c].sql,
                            stmt |-> stmts.store[hash], err |-> "" ])
             ELSE IF prepareFail
               THEN /\ stmts' = [stmts EXCEPT
                                   !.writer = "",
                                   !.prepares = Append(@, [sql |-> callers[c].sql,
                                                           ok |-> FALSE])]
                    /\ stmtRets' = Append(stmtRets,
                          [ c |-> c, sql |-> callers[c].sql, stmt |-> NoStmt,
                            err |-> "driver: prepare failed" ])
             ELSE /\ stmts' = [stmts EXCEPT
                                  !.writer = "",
                                  !.store = (hash :> id) @@ @,
                                  !.prepares = Append(@, [sql |-> callers[c].sql,
                                                          ok |-> TRUE])]
                  /\ stmtRets' = Append(stmtRets,
                        [ c |-> c, sql |-> callers[c].sql, stmt |-> id, err |-> "" ])
    /\ callers' = [callers EXCEPT ![c] = [pc |-> "idle", sql |-> ""]]
    /\ UNCHANGED <<builderVars, coerceVars, scanVars, metaVars, txVars, fragVars, colVars, execVars, lateVars>>

StmtNext ==
    \E c \in StmtCallers : GetStmtRead(c) \/ GetStmtLock(c) \/ GetStmtPrepare(c)

\* the PrepareContext calls that succeeded for a text
PreparedOk(sqlStr) ==
    { k \in 1..Len(stmts.prepares) :
        stmts.prepares[k].ok /\ stmts.prepares[k].sql = sqlStr }

\* C18: under any interleaving of getStmt calls for one SQL text the
\* statement is prepared successfully at most once and every caller gets that
\* cached statement; a failed prepare stores nothing and returns the error.
C18_PreparedAtMostOnce ==
    /\ \A sqlStr \in SQLTexts :
         /\ Cardinality(PreparedOk(sqlStr)) <= 1
         /\ hashSQL(sqlStr) \in DOMAIN stmts.store <=> PreparedOk(sqlStr) # {}
         /\ hashSQL(sqlStr) \in DOMAIN stmts.store =>
              stmts.store[hashSQL(sqlStr)] \in PreparedOk(sqlStr)
    /\ \A i \in 1..Len(stmtRets) :
         IF stmtRets[i].err = ""
           THEN /\ hashSQL(stmtRets[i].sql) \in DOMAIN stmts.store
                /\ stmtRets[i].stmt = stmts.store[hashSQL(stmtRets[i].sql)]
           ELSE /\ stmtRets[i].stmt = NoStmt
                /\ \E k \in 1..Len(stmts.prepares) :
                     ~stmts.prepares[k].ok /\ stmts.prepares[k].sql = stmtRets[i].sql

\* three callers asked for one text: a prepare failed, one succeeded, and a
\* caller that had missed in its read section found the statement under the
\* write lock
C18_Witness ==
    /\ Len(stmtRets) = 3
    /\ \A i \in 1..3 : stmtRets[i].sql = "SELECT 1"
    /\ stmtRets[1].err # ""
    /\ stmtRets[2].err = "" /\ stmtRets[3].err = ""
    /\ stmtRets[2].stmt = stmtRets[3].stmt
    /\ Len(stmts.prepares) = 2
    /\ Cardinality({stmtRets[i].c : i \in 1..3}) = 3

(***************************************************************************)
(* QueryFragment and QueryBuilder.Apply.  The selectCols of a fragment and *)
(* of a builder are slices: a backing array of the heap and a length; the  *)
(* capacity is the length of the array.  Apply assigns the slice of the    *)
(* fragment to a builder that has no columns, so the array can be shared.  *)
(* The other slices of a builder are only ever the result of its own       *)
(* appends and are kept by value.                                          *)
(*                                                                         *)
(* An array is named by who allocated it and by its capacity.  A fragment  *)
(* only grows, so its arrays differ in capacity, and all of them are kept: *)
(* a builder may still refer to an earlier one.  An array that no slice    *)
(* refers to is unreachable and leaves the heap; the cells of an array     *)
(* beyond the longest slice on it are written before they are read, and    *)
(* are kept blank.                                                         *)
(***************************************************************************)

FragmentNames == {"f", "g"}
BuilderNames == {"A", "B"}

NoArray == <<"", 0>>

\* make([]string, 0): no backing array
EmptySlice == [arr |-> NoArray, len |-> 0]

Cap(s) == s.arr[2]

Contents(h, s) == [i \in 1..s.len |-> h[s.arr][i]]

\* the capacity append gives a grown slice of strings (runtime growslice;
\* the size classes are exact up to 8 strings)
GrowCap(oldCap, needed) == IF needed > 2 * oldCap THEN needed ELSE 2 * oldCap

\* the heap after owner has allocated array
Allocate(h, owner, array) ==
    LET key == <<owner, Len(array)>>
    IN  [k \in DOMAIN h \cup {key} |-> IF k = key THEN array ELSE h[k]]

\* the heap without the arrays and cells that the slices of the fragments
\* frs and of the builders qs cannot reach
Reachable(h, frs, qs) ==
    LET slices == {frs[f].selectCols : f \in DOMAIN frs}
                  \cup {qs[b].selectCols : b \in DOMAIN qs}
        used(k) == {s.len : s \in {t \in slices : t.arr = k}}
        live == {k \in DOMAIN h : used(k) # {}}
    IN  [k \in live |->
           [i \in 1..Len(h[k]) |->
              IF \E n \in used(k) : i <= n THEN h[k][i] ELSE ""]]

\* append(s, elems...) made by owner: in place when the capacity allows,
\* else into a new array
AppendSlice(h, owner, s, elems) ==
    LET n == s.len + Len(elems) IN
    IF Len(elems) = 0 THEN [heap |-> h, slice |-> s]
    ELSE IF n <= Cap(s)
    THEN [ heap |-> [h EXCEPT ![s.arr] =
                       [i \in 1..Len(@) |->
                          IF i > s.len /\ i <= n THEN elems[i - s.len] ELSE @[i]]],
           slice |-> [arr |-> s.arr, len |-> n] ]
    ELSE LET old == Contents(h, s)
             c == GrowCap(Cap(s), n)
         IN  [ heap |-> Allocate(h, owner,
                                 [i \in 1..c |->
                                    IF i <= s.len THEN old[i]
                                    ELSE IF i <= n THEN elems[i - s.len]
                                    ELSE ""]),
               slice |-> [arr |-> <<owner, c>>, len |-> n] ]

\* a *int: nil, or the address of a copy of the argument
NilInt == [nil |-> TRUE, v |-> 0]

NewQueryFragment ==
    [ whereClauses |-> <<>>, joins |-> <<>>, orderBy |-> <<>>,
      selectCols |-> EmptySlice, groupBy |-> <<>>, having |-> <<>>,
      distinct |-> FALSE, limit |-> NilInt, offset |-> NilInt ]

\* Query[T](db) with the slices it makes; applied is the set of fragments
\* that were applied to the builder
Query ==
    [ dialect |-> "postgres", tableName |-> "users", whereClauses |-> <<>>,
      joins |-> <<>>, orderBy |-> <<>>, limit |-> NilInt, offset |-> NilInt,
      selectCols |-> EmptySlice, groupBy |-> <<>>, having |-> <<>>,
      distinct |-> FALSE, applied |-> {} ]

FragIdle ==
    /\ heap = <<>>
    /\ frags = [f \in FragmentNames |-> NewQueryFragment]
    /\ qbs = [b \in BuilderNames |-> Query]

\* the columns a caller names: the owner and the position tell them apart
ColumnNames(owner, from, k) ==
    [j \in 1..k |-> owner \o fastIntToString(from + j)]

\* QueryFragment.Select(columns...), called with one column
FragmentSelect(f) ==
    /\ frags[f].selectCols.len < MaxSelectCols
    /\ LET r == AppendSlice(heap, f, frags[f].selectCols,
                            ColumnNames(f, frags[f].selectCols.len, 1))
       IN  /\ frags' = [frags EXCEPT ![f].selectCols = r.slice]
           /\ heap' = Reachable(r.heap, frags', qbs)
    /\ UNCHANGED <<qbs, builderVars, coerceVars, scanVars, metaVars, txVars, stmtVars, colVars, execVars, lateVars>>

\* QueryBuilder.Apply(qf)
Apply(b, f) ==
    /\ qbs[b].selectCols.len + frags[f].selectCols.len <= MaxSelectCols
    /\ LET q == qbs[b]
           qf == frags[f]
           r == IF qf.selectCols.len > 0
                THEN IF q.selectCols.len = 0
                     THEN [heap |-> heap, slice |-> qf.selectCols]
                     ELSE AppendSlice(heap, b, q.selectCols,
                                      Contents(heap, qf.selectCols))
                ELSE [heap |-> heap, slice |-> q.selectCols]
       IN  /\ qbs' = [qbs EXCEPT ![b] =
                 [ q EXCEPT
                     !.whereClauses = @ \o qf.whereClauses,
                     !.joins = @ \o qf.joins,
                     !.orderBy = @ \o qf.orderBy,
                     !.selectCols = r.slice,
                     !.groupBy = @ \o qf.groupBy,
                     !.having = @ \o qf.having,
                     !.distinct = IF qf.distinct THEN TRUE ELSE @,
                     !.limit = IF ~qf.limit.nil /\ @.nil THEN qf.limit ELSE @,
                     !.offset = IF ~qf.offset.nil /\ @.nil THEN qf.offset ELSE @,
                     !.applied = @ \cup {f} ]]
           /\ heap' = Reachable(r.heap, frags, qbs')
    /\ UNCHANGED <<frags, builderVars, coerceVars, scanVars, metaVars, txVars, stmtVars, colVars, execVars, lateVars>>

\* QueryBuilder.Select(columns...): the slice of the arguments replaces
\* selectCols
BuilderSelect(b) ==
    /\ qbs' = [qbs EXCEPT ![b].selectCols = [arr |-> <<b, 1>>, len |-> 1]]
    /\ heap' = Reachable(Allocate(heap, b, ColumnNames(b, 0, 1)), frags, qbs')
    /\ UNCHANGED <<frags, builderVars, coerceVars, scanVars, metaVars, txVars, stmtVars, colVars, execVars, lateVars>>

FragNext ==
    \/ \E f \in FragmentNames : FragmentSelect(f)
    \/ \E b \in BuilderNames :
         \/ \E f \in FragmentNames : Apply(b, f)
         \/ BuilderSelect(b)

\* what a fragment holds, its columns read through the slice
FragmentContents(h, qf) == [qf EXCEPT !.selectCols = Contents(h, @)]

\* the statement and the arguments a builder generates; the joins, the
\* ordering and the paging are given as the builder holds them
Generated(h, q) ==
    LET r == buildSQL([ dialect |-> q.dialect, tableName |-> q.tableName,
                        whereClauses |-> q.whereClauses, having |-> q.having,
                        selectCols |-> Contents(h, q.selectCols),
                        groupBy |-> q.groupBy, distinct |-> q.distinct ])
    IN  [ sql |-> r.sql, args |-> r.args, joins |-> q.joins,
          orderBy |-> q.orderBy, limit |-> q.limit, offset |-> q.offset ]

\* C20: once a fragment f has been applied to builders A and B, no later
\* call on A (Select, Where, Apply of any fragment) changes what f holds or
\* the statement and arguments that B generates.
C20_FragmentReusableAcrossBuilders ==
    [][ \A a \in BuilderNames, b \in BuilderNames, f \in FragmentNames :
          (a # b /\ f \in qbs[a].applied /\ f \in qbs[b].applied /\ qbs'[a] # qbs[a])
            => /\ FragmentContents(heap', frags'[f]) = FragmentContents(heap, frags[f])
               /\ Generated(heap', qbs'[b]) = Generated(heap, qbs[b]) ]_vars

\* C27: when fn panics, the transaction is rolled back and the panic goes on
\* to the caller, whether the Rollback succeeds or fails: the call does not
\* return normally.
C27_PanicInFnPropagates ==
    \A i \in 1..Len(txDone) :
      (txDone[i].began /\ txDone[i].fn = "fn:panic") =>
        /\ txDone[i].calls[3] = "Rollback"
        /\ txDone[i].panicked

(***************************************************************************)
(* columnMapCache.getColumnMap called from several goroutines.  mu is a    *)
(* sync.RWMutex; a column map is an object of cmc.maps, and the store      *)
(* holds, for a key, the number of a map.  A map is published once it is   *)
(* in the store or has been returned.                                      *)
(***************************************************************************)

\* the column lists rows.Columns() gives in the model: the second is one
\* column named "a,b" (an alias or an expression the driver names by its
\* text), the third differs from the first in case only
ColumnLists ==
    { << <<"a">>, <<"b">> >>,
      << <<"a", ",", "b">> >>,
      << <<"A">>, <<"b">> >> }

ColIdle ==
    /\ cmc = [store |-> <<>>, readers |-> {}, writer |-> "", maps |-> <<>>]
    /\ cmCallers = [g \in Goroutines |->
                      [pc |-> "idle", columns |-> <<>>, i |-> 0, map |-> 0]]
    /\ cmLog = [rets |-> <<>>, access |-> {}, modifiedPublished |-> FALSE]

\* a lookup made after the read lock was given back
LockHeldAfterUnlock(c, g) == IF c.writer = g THEN "write" ELSE "none"

\* the lock on mu that goroutine g holds
LockHeld(c, g) ==
    IF c.writer = g THEN "write"
    ELSE IF g \in c.readers THEN "read"
    ELSE "none"

ColumnMapCallsBegun ==
    Len(cmLog.rets) + Cardinality({g \in Goroutines : cmCallers[g].pc # "idle"})

\* key := fastColumnKey(columns); cmc.mu.RLock()
GetColumnMapRLock(g) ==
    /\ cmCallers[g].pc = "idle"
    /\ ColumnMapCallsBegun < MaxColumnMapCalls
    /\ cmc.writer = ""
    /\ \E columns \in ColumnLists :
         cmCallers' = [cmCallers EXCEPT ![g] =
                         [pc |-> "lookup", columns |-> columns, i |-> 0, map |-> 0]]
    /\ cmc' = [cmc EXCEPT !.readers = @ \cup {g}]
    /\ UNCHANGED <<cmLog, builderVars, coerceVars, scanVars, metaVars, txVars,
                   stmtVars, fragVars, execVars, lateVars>>

\* the lookup, RUnlock, and on a hit the return; on a miss the empty map
GetColumnMapLookup(g) ==
    /\ cmCallers[g].pc = "lookup"
    /\ LET key == fastColumnKey(cmCallers[g].columns)
           access == [kind |-> "read", held |-> LockHeld(cmc, g)]
       IN  IF key \in DOMAIN cmc.store
             THEN /\ cmc' = [cmc EXCEPT !.readers = @ \ {g}]
                  /\ cmLog' = [cmLog EXCEPT
                        !.access = @ \cup {access},
                        !.rets = Append(@, [ columns |-> cmCallers[g].columns,
                                             map |-> cmc.store[key], hit |-> TRUE ])]
                  /\ cmCallers' = [cmCallers EXCEPT ![g] =
                        [pc |-> "idle", columns |-> <<>>, i |-> 0, map |-> 0]]
             ELSE /\ cmc' = [cmc EXCEPT
                        !.readers = @ \ {g},
                        !.maps = Append(@, [ content |-> <<>>, published |-> FALSE,
                                             columns |-> cmCallers[g].columns ])]
                  /\ cmLog' = [cmLog EXCEPT !.access = @ \cup {access}]
                  /\ cmCallers' = [cmCallers EXCEPT ![g].pc = "build",
                                                    ![g].map = Len(cmc.maps) + 1]
    /\ UNCHANGED <<builderVars, coerceVars, scanVars, metaVars, txVars,
                   stmtVars, fragVars, execVars, lateVars>>

\* one iteration of the loop: columnMap[cachedToLower(col)] = i
GetColumnMapBuild(g) ==
    /\ cmCallers[g].pc = "build"
    /\ cmCallers[g].i < Len(cmCallers[g].columns)
    /\ LET me == cmCallers[g]
           k == cachedToLower(me.columns[me.i + 1])
       IN  /\ cmc' = [cmc EXCEPT !.maps[me.map].content = (k :> me.i) @@ @]
           /\ cmLog' = [cmLog EXCEPT
                 !.modifiedPublished = @ \/ cmc.maps[me.map].published]
           /\ cmCallers' = [cmCallers EXCEPT ![g].i = @ + 1]
    /\ UNCHANGED <<builderVars, coerceVars, scanVars, metaVars, txVars,
                   stmtVars, fragVars, execVars, lateVars>>

\* cmc.mu.Lock()
GetColumnMapLock(g) ==
    /\ cmCallers[g].pc = "build"
    /\ cmCallers[g].i = Len(cmCallers[g].columns)
    /\ cmc.writer = "" /\ cmc.readers = {}
    /\ cmc' = [cmc EXCEPT !.writer = g]
    /\ cmCallers' = [cmCallers EXCEPT ![g].pc = "store"]
    /\ UNCHANGED <<cmLog, builderVars, coerceVars, scanVars, metaVars, txVars,
                   stmtVars, fragVars, execVars, lateVars>>

\* cmc.store[key] = columnMap; cmc.mu.Unlock(); return columnMap
GetColumnMapStore(g) ==
    /\ cmCallers[g].pc = "store"
    /\ LET me == cmCallers[g]
           key == fastColumnKey(me.columns)
       IN  /\ cmLog' = [cmLog EXCEPT
                 !.access = @ \cup {[kind |-> "write", held |-> LockHeld(cmc, g)]},
                 !.rets = Append(@, [ columns |-> me.columns, map |-> me.map,
                                      hit |-> FALSE ])]
           /\ cmc' = [cmc EXCEPT !.store = (key :> me.map) @@ @,
                                 !.maps[me.map].published = TRUE,
                                 !.writer = ""]
    /\ cmCallers' = [cmCallers EXCEPT ![g] =
                       [pc |-> "idle", columns |-> <<>>, i |-> 0, map |-> 0]]
    /\ UNCHANGED <<builderVars, coerceVars, scanVars, metaVars, txVars,
                   stmtVars, fragVars, execVars, lateVars>>

ColNext ==
    \E g \in Goroutines :
      \/ GetColumnMapRLock(g)
      \/ GetColumnMapLookup(g)
      \/ GetColumnMapBuild(g)
      \/ GetColumnMapLock(g)
      \/ GetColumnMapStore(g)

\* C22: the map getColumnMap returns for a column list is the map computed
\* from that list (the lower-cased name of c[i] maps to i), whatever was
\* looked up before, and two different column lists share no cache entry.
C22_ReturnedMapIsTheMapOfTheList ==
    /\ \A r \in 1..Len(cmLog.rets) :
         cmc.maps[cmLog.rets[r].map].content = BuildColumnMap(cmLog.rets[r].columns)
    /\ \A r \in 1..Len(cmLog.rets) :
         cmc.maps[cmLog.rets[r].map].columns = cmLog.rets[r].columns

\* C24: the store is read only under the read or the write lock and written
\* only under the write lock, a map is not modified once it is stored or
\* returned, and the maps that concurrent misses for one list store are
\* equal.
C24_StoreAccessedUnderLock ==
    /\ \A a \in cmLog.access :
         IF a.kind = "read" THEN a.held \in {"read", "write"} ELSE a.held = "write"
    /\ cmc.writer # "" => cmc.readers = {}
    /\ ~cmLog.modifiedPublished
    /\ \A m \in 1..Len(cmc.maps), n \in 1..Len(cmc.maps) :
         (/\ cmc.maps[m].published /\ cmc.maps[n].published
          /\ cmc.maps[m].columns = cmc.maps[n].columns) =>
           cmc.maps[m].content = cmc.maps[n].content

\* two goroutines missed for the same list and both stored their map, and a
\* later call for the list was answered from the store
C24_Witness ==
    /\ Len(cmLog.rets) = 3
    /\ \A r \in 1..3 : cmLog.rets[r].columns = << <<"a">>, <<"b">> >>
    /\ ~cmLog.rets[1].hit /\ ~cmLog.rets[2].hit /\ cmLog.rets[3].hit
    /\ cmLog.rets[1].map # cmLog.rets[2].map
    /\ cmLog.access = {[kind |-> "read", held |-> "read"],
                       [kind |-> "write", held |-> "write"]}

\* C23: every buffer that rests in the pool has all the slots of its
\* capacity null; the buffer Get hands out has no value of an earlier scan
\* within the requested size, and ptrs[i] refers to values[i], both of the
\* requested length.
C23_PooledBuffersAreCleared ==
    /\ \A b \in 1..Len(pool) :
         \A k \in 1..Len(pool[b].values) : pool[b].values[k] = Null
    /\ (scan.pc = "rows" /\ scan.impl = "optimized") =>
         /\ scan.buf.len = Len(scan.columns)
         /\ Len(scan.buf.ptrs) = Len(scan.columns)
         /\ \A i \in 1..scan.buf.len : scan.buf.ptrs[i] = i
         /\ Len(scan.buf.values) >= scan.buf.len
         /\ scan.fetched = <<>> =>
              \A k \in 1..Len(scan.buf.values) : scan.buf.values[k] = Null
    /\ \A b \in 1..Len(pool) :
         LET larger == Get(pool[b], Len(pool[b].values) + 1)
         IN  /\ larger.len = Len(pool[b].values) + 1
             /\ larger.ptrs = [i \in 1..larger.len |-> i]
             /\ larger.values = [i \in 1..larger.len |-> Null]

\* a scan of three columns took a buffer from the pool that an earlier scan
\* had put back
C23_Witness ==
    /\ scan.n = 2
    /\ scan.pc = "rows"
    /\ scan.recycled
    /\ Len(scan.columns) = 3
    /\ scan.fetched = <<>>
    /\ scan.buf.len = 3

(***************************************************************************)
(* Subqueries in WHERE: NewSubquery, WhereSubquery, OrWhereSubquery.  The  *)
(* clause holds the *Subquery as its value; buildWhereClause has no case   *)
(* for it.                                                                 *)
(***************************************************************************)

\* NewSubquery(qb): the statement and the arguments of the inner builder
NewSubquery(b) == [sql |-> buildSQL(b).sql, args |-> buildSQL(b).args]

\* Subquery.SQL(): "(" + sq.sql + ")"
SQL(sq) == <<"(">> \o Flatten(sq.sql) \o <<")">>

\* Subquery.Args()
Args(sq) == sq.args

\* the inner builders of the model: posts filtered by one bound value
InnerBuilder(d) ==
    [ NewQueryBuilder(d) EXCEPT
        !.tableName = "posts",
        !.selectCols = <<"user_id">>,
        !.whereClauses = << [ Column |-> "created_at", Operator |-> ">",
                              Value |-> Scalar(7), And |-> TRUE ] >> ]

SubqueryOperators == {"IN", "NOT IN", "="}

AppendWhereSubquery(op, and) ==
    LET i == Len(qb.whereClauses) + 1 IN
    qb' = [qb EXCEPT !.whereClauses = Append(@,
            [ Column |-> ColumnAt(WhereColumns, i), Operator |-> op,
              Value |-> [t |-> "subquery", v |-> NewSubquery(InnerBuilder(qb.dialect))],
              And |-> and ])]

WhereSubquery ==
    /\ ~built.done
    /\ Len(qb.whereClauses) < MaxWhere
    /\ \E op \in SubqueryOperators : AppendWhereSubquery(op, TRUE)
    /\ UNCHANGED <<built, coerceVars, scanVars, restVars>>

OrWhereSubquery ==
    /\ ~built.done
    /\ Len(qb.whereClauses) < MaxWhere
    /\ \E op \in SubqueryOperators : AppendWhereSubquery(op, FALSE)
    /\ UNCHANGED <<built, coerceVars, scanVars, restVars>>

SubqueryNext ==
    Where \/ OrWhere \/ WhereSubquery \/ OrWhereSubquery \/ BuildSQL

\* seq holds sub as a run of consecutive elements
HoldsRun(seq, sub) ==
    \E from \in 0..(Len(seq) - Len(sub)) :
      \A j \in 1..Len(sub) : seq[from + j] = sub[j]

\* C21: after WhereSubquery or OrWhereSubquery with a valid operator, the
\* statement has a condition on the column whose right-hand side is the SQL
\* of the subquery, and the arguments hold the arguments of the subquery in
\* order.
C21_SubqueryRenderedInWhere ==
    built.done =>
      \A i \in 1..Len(qb.whereClauses) :
        LET clause == qb.whereClauses[i] IN
        (clause.Value.t = "subquery" /\ isValidOperator(clause.Operator)) =>
          /\ \E p \in 1..Len(built.sql) :
               built.sql[p] = << QuoteIdentifier(qb.dialect, clause.Column),
                                 ToUpperTrim(clause.Operator) >>
                              \o SQL(clause.Value.v)
          /\ HoldsRun(built.args, Args(clause.Value.v))


(***************************************************************************)
(* Builders made from a database handle and from a transaction             *)
(* (builder.go Query, QueryTx; update.go Update, UpdateTx; delete.go       *)
(* Delete, DeleteTx), and what their Execute sends to the database.        *)
(* Driver type names are sequences of characters, so that detectDialect    *)
(* searches them as strings.Contains does.                                 *)
(***************************************************************************)
PqDriver == <<"*", "p", "q", ".", "D", "r", "i", "v", "e", "r">>

MySQLDriver ==
    <<"*", "m", "y", "s", "q", "l", ".", "M", "y", "S", "Q", "L",
      "D", "r", "i", "v", "e", "r">>

SQLiteDriver ==
    <<"*", "s", "q", "l", "i", "t", "e", "3", ".", "S", "Q", "L", "i", "t", "e",
      "D", "r", "i", "v", "e", "r">>

DriverTypes == {PqDriver, MySQLDriver, SQLiteDriver}

NilDriver == <<>>

\* builder.go detectDialect: no driver gives PostgreSQL; otherwise the
\* driver's type name is searched for "pq"/"postgres", "mysql", "sqlite".
detectDialect(driver) ==
    IF driver = NilDriver THEN "postgres"
    ELSE IF HoldsRun(driver, <<"p", "q">>)
            \/ HoldsRun(driver, <<"p", "o", "s", "t", "g", "r", "e", "s">>)
         THEN "postgres"
    ELSE IF HoldsRun(driver, <<"m", "y", "s", "q", "l">>) THEN "mysql"
    ELSE IF HoldsRun(driver, <<"s", "q", "l", "i", "t", "e">>) THEN "sqlite"
    ELSE "postgres"

\* The driver detectDialect is handed: db.Driver() by Query, Update and
\* Delete, nil by QueryTx, UpdateTx and DeleteTx.
DriverSeen(driver, viaTx) == IF viaTx THEN NilDriver ELSE driver

SomeInt(n) == [nil |-> FALSE, v |-> n]

MaxUint64 == "18446744073709551615"

\* dialect BuildLimitOffset: PostgreSQL and SQLite join the parts present;
\* MySQL writes LIMIT 18446744073709551615 before an OFFSET without a LIMIT.
BuildLimitOffset(d, limit, offset) ==
    IF d = "mysql"
    THEN IF ~limit.nil /\ ~offset.nil
         THEN << <<"LIMIT", limit.v, "OFFSET", offset.v>> >>
         ELSE IF ~limit.nil THEN << <<"LIMIT", limit.v>> >>
         ELSE IF ~offset.nil THEN << <<"LIMIT", MaxUint64, "OFFSET", offset.v>> >>
         ELSE <<>>
    ELSE LET parts == (IF ~limit.nil THEN <<"LIMIT", limit.v>> ELSE <<>>)
                      \o (IF ~offset.nil THEN <<"OFFSET", offset.v>> ELSE <<>>)
         IN  IF parts = <<>> THEN <<>> ELSE <<parts>>

StatementKinds == {"select", "update", "delete"}

\* Query/QueryTx, Update/UpdateTx, Delete/DeleteTx: the constructors differ
\* only in the handle they keep and in the driver they hand to detectDialect.
NewStatementBuilder(kind, driver, viaTx) ==
    [ kind |-> kind, driver |-> driver, viaTx |-> viaTx,
      dialect |-> detectDialect(DriverSeen(driver, viaTx)),
      tableName |-> "users", whereClauses |-> <<>>, sets |-> <<>>,
      returning |-> <<>>, limit |-> NilInt, offset |-> NilInt ]

NoBuilder == [kind |-> "none"]

NothingSent == [done |-> FALSE]

ExecIdle == stb = NoBuilder /\ sent = NothingSent

\* The view of a builder that QueryBuilder.buildSQL reads.
AsQueryBuilder(b) ==
    [ dialect |-> b.dialect, tableName |-> b.tableName,
      whereClauses |-> b.whereClauses, having |-> <<>>, selectCols |-> <<>>,
      groupBy |-> <<>>, distinct |-> FALSE ]

\* builder.go buildSQL, with its LIMIT/OFFSET part.
buildSelect(b) ==
    LET s == buildSQL(AsQueryBuilder(b)) IN
    [ sql |-> s.sql \o (IF ~b.limit.nil \/ ~b.offset.nil
                        THEN BuildLimitOffset(b.dialect, b.limit, b.offset)
                        ELSE <<>>),
      args |-> s.args ]

ReturningPart(b) ==
    IF Len(b.returning) > 0 /\ b.dialect = "postgres"
    THEN << <<"RETURNING">> \o QuotedList(b.dialect, b.returning) >>
    ELSE <<>>

\* delete.go Execute: the statement text and its arguments.
buildDelete(b) ==
    LET w == buildWhereClause(b.dialect, b.whereClauses, 0) IN
    [ sql |-> << <<"DELETE FROM", QuoteIdentifier(b.dialect, b.tableName)>> >>
              \o w.sql \o ReturningPart(b),
      args |-> w.args ]

\* update.go Execute: the SET list in the order the map iteration gave,
\* then the WHERE fragment numbered after it.
buildUpdate(b, order) ==
    LET n == Len(order)
        setParts == [i \in 1..n |->
                       <<QuoteIdentifier(b.dialect, order[i].col), "=",
                         Placeholder(b.dialect, i)>>
                       \o (IF i < n THEN <<",">> ELSE <<>>)]
        w == buildWhereClause(b.dialect, b.whereClauses, n)
    IN  [ sql |-> << <<"UPDATE", QuoteIdentifier(b.dialect, b.tableName), "SET">>
                     \o Flatten(setParts) >>
                  \o w.sql \o ReturningPart(b),
          args |-> [i \in 1..n |-> order[i].val] \o w.args ]

\* The orders in which ranging over the sets map can visit its entries.
MapOrders(sets) ==
    { o \in [1..Len(sets) -> 1..Len(sets)] :
        \A i, j \in 1..Len(sets) : o[i] = o[j] => i = j }

Reordered(sets, o) == [i \in 1..Len(sets) |-> sets[o[i]]]

Statements(b) ==
    IF b.kind = "select" THEN {buildSelect(b)}
    ELSE IF b.kind = "delete" THEN {buildDelete(b)}
    ELSE {buildUpdate(b, Reordered(b.sets, o)) : o \in MapOrders(b.sets)}

SetColumns == <<"name", "email">>

\* Query, QueryTx, Update, UpdateTx, Delete, DeleteTx
NewStatement ==
    /\ stb = NoBuilder
    /\ ~sent.done
    /\ \E kind \in StatementKinds, driver \in DriverTypes, viaTx \in BOOLEAN :
         stb' = NewStatementBuilder(kind, driver, viaTx)
    /\ UNCHANGED <<sent, builderVars, coerceVars, scanVars, metaVars, txVars,
                   stmtVars, fragVars, colVars, lateVars>>

\* QueryBuilder.Where, UpdateBuilder.Where, DeleteBuilder.Where
StatementWhere ==
    /\ stb # NoBuilder
    /\ ~sent.done
    /\ Len(stb.whereClauses) < MaxWhere
    /\ \E in \in WhereInputs :
         LET i == Len(stb.whereClauses) + 1 IN
         stb' = [stb EXCEPT !.whereClauses = Append(@,
                   [ Column |-> ColumnAt(WhereColumns, i), Operator |-> in[1],
                     Value |-> ValueOf(in[2], 10 * i), And |-> TRUE ])]
    /\ UNCHANGED <<sent, builderVars, coerceVars, scanVars, metaVars, txVars,
                   stmtVars, fragVars, colVars, lateVars>>

\* UpdateBuilder.Set: the next column of SetColumns is written to the map.
Set ==
    /\ stb # NoBuilder
    /\ stb.kind = "update"
    /\ ~sent.done
    /\ Len(stb.sets) < Len(SetColumns)
    /\ LET i == Len(stb.sets) + 1 IN
       stb' = [stb EXCEPT !.sets = Append(@,
                 [col |-> SetColumns[i], val |-> Scalar(100 + i)])]
    /\ UNCHANGED <<sent, builderVars, coerceVars, scanVars, metaVars, txVars,
                   stmtVars, fragVars, colVars, lateVars>>

\* QueryBuilder.Limit and QueryBuilder.Offset
LimitOffset ==
    /\ stb # NoBuilder
    /\ stb.kind = "select"
    /\ ~sent.done
    /\ \/ stb.limit.nil /\ stb' = [stb EXCEPT !.limit = SomeInt(10)]
       \/ stb.offset.nil /\ stb' = [stb EXCEPT !.offset = SomeInt(5)]
    /\ UNCHANGED <<sent, builderVars, coerceVars, scanVars, metaVars, txVars,
                   stmtVars, fragVars, colVars, lateVars>>

\* UpdateBuilder.Returning, DeleteBuilder.Returning
Returning ==
    /\ stb # NoBuilder
    /\ stb.kind \in {"update", "delete"}
    /\ ~sent.done
    /\ stb.returning = <<>>
    /\ stb' = [stb EXCEPT !.returning = <<"id">>]
    /\ UNCHANGED <<sent, builderVars, coerceVars, scanVars, metaVars, txVars,
                   stmtVars, fragVars, colVars, lateVars>>

\* QueryBuilder.Execute, UpdateBuilder.Execute, DeleteBuilder.Execute: a nil
\* context and an UPDATE without Set return an error and send nothing;
\* otherwise the statement is built and handed to the database as it is.
ExecuteStatement ==
    /\ stb # NoBuilder
    /\ ~sent.done
    /\ \E ctxNil \in BOOLEAN :
         IF ctxNil
         THEN sent' = [done |-> TRUE, err |-> "ErrNilContext", executed |-> FALSE]
         ELSE IF stb.kind = "update" /\ Len(stb.sets) = 0
         THEN sent' = [done |-> TRUE, err |-> "ErrEmptySet", executed |-> FALSE]
         ELSE \E st \in Statements(stb) :
                sent' = [ done |-> TRUE, err |-> "", executed |-> TRUE,
                          sql |-> st.sql, args |-> st.args ]
    /\ UNCHANGED <<stb, builderVars, coerceVars, scanVars, metaVars, txVars,
                   stmtVars, fragVars, colVars, lateVars>>

ExecNext ==
    NewStatement \/ StatementWhere \/ Set \/ LimitOffset \/ Returning
    \/ ExecuteStatement

\* C29: a DELETE or UPDATE built after at least one Where call is never
\* executed without a WHERE fragment, even if every filter is dropped while
\* the WHERE clause is assembled.
C29_FilteredStatementKeepsWhere ==
    (sent.done /\ sent.executed /\ stb.kind \in {"update", "delete"}
       /\ Len(stb.whereClauses) >= 1)
    => \E i \in 1..Len(sent.sql) : sent.sql[i] = <<"WHERE">>

\* C30: a builder made from a transaction sends the statement the builder
\* made from the database handle would send: same placeholders, same
\* identifier quoting, same LIMIT/OFFSET, for each of the three drivers.
C30_TxBuilderUsesTheDialectOfTheDatabase ==
    (sent.done /\ sent.executed /\ stb.viaTx)
    => [sql |-> sent.sql, args |-> sent.args]
         \in Statements([stb EXCEPT !.dialect = detectDialect(stb.driver)])


(***************************************************************************)
(* The INSERT builder (insert.go, and the later version of it with         *)
(* resolveColumns, buildInsertSQL and buildValueParts).  A value to insert *)
(* is a record of the declared layout of its type; each field holds its    *)
(* own name, so that a value bound for a column shows the field it was     *)
(* read from, and whether it is the zero value.                            *)
(***************************************************************************)
InsertTypes == {"User", "Account", "Tagged"}

InsertImpls == {"Execute", "buildInsertSQL"}

InsertValues(typ) ==
    LET decl == TypeDecl(typ).fields IN
    { [i \in 1..Len(decl) |-> [of |-> decl[i].name, zero |-> z[i]]] :
        z \in [1..Len(decl) -> BOOLEAN] }

\* var fieldValue interface{}
NilValue == [of |-> "", zero |-> TRUE]

NoInsert == [pc |-> "idle"]

InsIdle == ins = NoInsert

\* the columns of the statement: those given to Columns, or every field of
\* the metadata but the zero-valued ones whose column name contains "id"
resolveColumns(impl, info, value, columns) ==
    IF Len(columns) > 0 THEN columns
    ELSE Flatten([ k \in 1..Len(info.fields) |->
           LET field == info.fields[k]
               name == IF impl = "Execute" THEN ToLower(field.dbColumn)
                       ELSE field.dbColumn
           IN  IF HoldsRun(name, <<"i", "d">>) /\ value[field.index + 1].zero
                 THEN <<>> ELSE <<field.dbColumn>> ])

\* InsertBuilder.Execute of insert.go: the first field of the metadata with
\* the column's name, read at field.index
ValueByFieldIndex(info, value, col) ==
    LET ks == {k \in 1..Len(info.fields) : info.fields[k].dbColumn = col} IN
    IF ks = {} THEN [panic |-> FALSE, v |-> NilValue]
    ELSE LET k == CHOOSE x \in ks : \A y \in ks : x <= y
         IN  [panic |-> FALSE, v |-> value[info.fields[k].index + 1]]

\* buildInsertSQL and buildValueParts: fieldMap[field.dbColumn] = idx, the
\* position in info.fields, looked up by the lower-cased column and handed
\* to valRef.Field; Interface() panics on an unexported field
ValueByFieldMap(typ, info, value, col) ==
    LET ks == {k \in 1..Len(info.fields) : info.fields[k].dbColumn = ToLower(col)} IN
    IF ks = {} THEN [panic |-> FALSE, v |-> NilValue]
    ELSE LET fieldIdx == (CHOOSE x \in ks : \A y \in ks : x >= y) - 1
         IN  IF ~TypeDecl(typ).fields[fieldIdx + 1].exported
               THEN [panic |-> TRUE, v |-> NilValue]
               ELSE [panic |-> FALSE, v |-> value[fieldIdx + 1]]

ValueBound(impl, typ, info, value, col) ==
    IF impl = "Execute" THEN ValueByFieldIndex(info, value, col)
    ELSE ValueByFieldMap(typ, info, value, col)

\* the statement: its table, its columns, one placeholder and one argument
\* for each column
buildInsertSQL(impl, typ, info, value, columns) ==
    LET bound == [j \in 1..Len(columns) |->
                    ValueBound(impl, typ, info, value, columns[j])]
    IN  [ panic |-> \E j \in 1..Len(columns) : bound[j].panic,
          tableName |-> info.tableName,
          columns |-> columns,
          placeholders |-> [j \in 1..Len(columns) |-> Placeholder("postgres", j)],
          args |-> [j \in 1..Len(columns) |-> bound[j].v] ]

\* Insert(db, value)
Insert ==
    /\ ins = NoInsert
    /\ \E typ \in InsertTypes, impl \in InsertImpls :
         \E value \in InsertValues(typ) :
           ins' = [ pc |-> "built", impl |-> impl, typ |-> typ, value |-> value,
                    columns |-> <<>> ]
    /\ UNCHANGED <<hk, cl, builderVars, coerceVars, scanVars, metaVars, txVars,
                   stmtVars, fragVars, colVars, execVars>>

\* InsertBuilder.Columns, with the column names of the metadata in their
\* order or the last of them alone
Columns ==
    /\ ins.pc = "built"
    /\ ins.columns = <<>>
    /\ LET fields == getStructInfo(ins.typ, <<>>).info.fields
           all == [k \in 1..Len(fields) |-> fields[k].dbColumn]
       IN  \E columns \in {all, <<all[Len(all)]>>} :
             ins' = [ins EXCEPT !.columns = columns]
    /\ UNCHANGED <<hk, cl, builderVars, coerceVars, scanVars, metaVars, txVars,
                   stmtVars, fragVars, colVars, execVars>>

\* InsertBuilder.Execute
InsertExecute ==
    /\ ins.pc = "built"
    /\ \E ctxNil \in BOOLEAN :
         LET si == getStructInfo(ins.typ, <<>>)
             columns == resolveColumns(ins.impl, si.info, ins.value, ins.columns)
             st == buildInsertSQL(ins.impl, ins.typ, si.info, ins.value, columns)
         IN  IF ctxNil
               THEN ins' = [ins EXCEPT !.pc = "failed"]
             ELSE IF st.panic
               THEN ins' = [ins EXCEPT !.pc = "panicked"]
             ELSE ins' = [ pc |-> "sent", impl |-> ins.impl, typ |-> ins.typ,
                           value |-> ins.value, columns |-> st.columns,
                           info |-> si.info, tableName |-> st.tableName,
                           placeholders |-> st.placeholders, args |-> st.args ]
    /\ UNCHANGED <<hk, cl, builderVars, coerceVars, scanVars, metaVars, txVars,
                   stmtVars, fragVars, colVars, execVars>>

InsNext == Insert \/ Columns \/ InsertExecute

\* C25: for a record type with unexported, untagged or skipped fields before
\* or between the persisted ones, the position the metadata records for a
\* field is its index in the declared layout, and the INSERT builder binds,
\* for each column, the value of the field annotated with that column.
C25_ColumnBoundToItsField ==
    ins.pc = "sent" =>
      /\ \A k \in 1..Len(ins.info.fields) :
           TypeDecl(ins.typ).fields[ins.info.fields[k].index + 1].name
             = ins.info.fields[k].name
      /\ \A j \in 1..Len(ins.columns) :
           \A k \in 1..Len(ins.info.fields) :
             (/\ ins.info.fields[k].dbColumn = ins.columns[j]
              /\ \A e \in 1..(k - 1) :
                   ins.info.fields[e].dbColumn # ins.columns[j])
             => ins.args[j] = ins.value[ins.info.fields[k].index + 1]


(***************************************************************************)
(* DefaultHooks and QueryBuilder.Execute (hooks.go, builder.go 288-362).   *)
(* A hook is a callback: it is a record of its number in the order of      *)
(* registration and of whether it returns an error.  The log holds what    *)
(* Execute did, in order: the hooks it called, the statement it prepared   *)
(* or sent, the rows it scanned.                                           *)
(***************************************************************************)
NoHooks == [beforeQuery |-> <<>>, afterQuery |-> <<>>]

HookIdle ==
    hk = [ hooks |-> NoHooks, pc |-> "idle", i |-> 0, log |-> <<>>,
           ret |-> [result |-> FALSE, err |-> ""] ]

\* a before hook whose error Execute never sees
HookErrorIgnored(hook) == ""

\* hook(ctx, query, args)
HookError(hook) ==
    IF hook.fails THEN "hook " \o ToString(hook.id) \o " failed" ELSE ""

\* Hooks.BeforeQuery: append to h.beforeQuery
BeforeQuery ==
    /\ hk.pc = "idle"
    /\ Len(hk.hooks.beforeQuery) < MaxHooks
    /\ \E fails \in BOOLEAN :
         hk' = [hk EXCEPT !.hooks.beforeQuery =
                  Append(@, [id |-> Len(@) + 1, fails |-> fails])]
    /\ UNCHANGED <<ins, cl, builderVars, coerceVars, scanVars, metaVars, txVars,
                   stmtVars, fragVars, colVars, execVars>>

\* Hooks.AfterQuery: append to h.afterQuery
AfterQuery ==
    /\ hk.pc = "idle"
    /\ Len(hk.hooks.afterQuery) < MaxHooks
    /\ \E fails \in BOOLEAN :
         hk' = [hk EXCEPT !.hooks.afterQuery =
                  Append(@, [id |-> Len(@) + 1, fails |-> fails])]
    /\ UNCHANGED <<ins, cl, builderVars, coerceVars, scanVars, metaVars, txVars,
                   stmtVars, fragVars, colVars, execVars>>

Returned(h, result, err) ==
    [h EXCEPT !.pc = "done", !.ret = [result |-> result, err |-> err]]

\* Execute up to the before hooks: the nil context, buildSQL
ExecuteBegin ==
    /\ hk.pc = "idle"
    /\ \E ctxNil \in BOOLEAN :
         hk' = IF ctxNil THEN Returned(hk, FALSE, "ErrNilContext")
               ELSE [hk EXCEPT !.pc = "before", !.i = 1]
    /\ UNCHANGED <<ins, cl, builderVars, coerceVars, scanVars, metaVars, txVars,
                   stmtVars, fragVars, colVars, execVars>>

\* one turn of the loop of executeBeforeHooks, and the return of its error
ExecuteBeforeHooks ==
    /\ hk.pc = "before"
    /\ IF hk.i > Len(hk.hooks.beforeQuery)
         THEN hk' = [hk EXCEPT !.pc = "query"]
         ELSE LET hook == hk.hooks.beforeQuery[hk.i]
                  h == [hk EXCEPT !.log = Append(@, <<"before", hook.id, hook.fails>>)]
              IN  hk' = IF HookError(hook) # ""
                          THEN Returned(h, FALSE, HookError(hook))
                          ELSE [h EXCEPT !.i = @ + 1]
    /\ UNCHANGED <<ins, cl, builderVars, coerceVars, scanVars, metaVars, txVars,
                   stmtVars, fragVars, colVars, execVars>>

\* the statement: getStmt and stmt.QueryContext with the statement cache,
\* tx.QueryContext or db.QueryContext without it
ExecuteQuery ==
    /\ hk.pc = "query"
    /\ \E cached \in BOOLEAN, stmtErr \in BOOLEAN, queryErr \in BOOLEAN :
         hk' = IF cached /\ stmtErr
                 THEN Returned([hk EXCEPT !.log = Append(@, <<"prepare">>)],
                               FALSE, "sqlblade: prepare failed")
               ELSE LET h == [hk EXCEPT !.log =
                                (IF cached THEN Append(@, <<"prepare">>) ELSE @)
                                \o << <<"query">> >>]
                    IN  IF queryErr THEN Returned(h, FALSE, "sqlblade: query failed")
                        ELSE [h EXCEPT !.pc = "scan"]
    /\ UNCHANGED <<ins, cl, builderVars, coerceVars, scanVars, metaVars, txVars,
                   stmtVars, fragVars, colVars, execVars>>

\* scanRowsOptimized, and the return of its error without the after hooks
ExecuteScan ==
    /\ hk.pc = "scan"
    /\ \E scanErr \in BOOLEAN :
         hk' = IF scanErr
                 THEN Returned([hk EXCEPT !.log = Append(@, <<"scan failed">>)],
                               FALSE, "sqlblade: failed to scan row")
                 ELSE [hk EXCEPT !.log = Append(@, <<"scanned">>),
                                 !.pc = "after", !.i = 1]
    /\ UNCHANGED <<ins, cl, builderVars, coerceVars, scanVars, metaVars, txVars,
                   stmtVars, fragVars, colVars, execVars>>

\* one turn of the loop of executeAfterHooks; Execute drops its error and
\* returns the result
ExecuteAfterHooks ==
    /\ hk.pc = "after"
    /\ IF hk.i > Len(hk.hooks.afterQuery)
         THEN hk' = Returned(hk, TRUE, "")
         ELSE LET hook == hk.hooks.afterQuery[hk.i]
                  h == [hk EXCEPT !.log = Append(@, <<"after", hook.id, hook.fails>>)]
              IN  hk' = IF hook.fails THEN Returned(h, TRUE, "")
                        ELSE [h EXCEPT !.i = @ + 1]
    /\ UNCHANGED <<ins, cl, builderVars, coerceVars, scanVars, metaVars, txVars,
                   stmtVars, fragVars, colVars, execVars>>

HookNext ==
    BeforeQuery \/ AfterQuery \/ ExecuteBegin \/ ExecuteBeforeHooks
    \/ ExecuteQuery \/ ExecuteScan \/ ExecuteAfterHooks

\* the events of the log of one kind, as positions in the log
Events(kind) == {e \in 1..Len(hk.log) : hk.log[e][1] = kind}

\* C26: in QueryBuilder.Execute the before hooks run in the order of their
\* registration, before any statement is prepared or sent; when a before
\* hook returns an error no later hook runs, no query is executed and that
\* error is returned; the after hooks run only after the query was executed
\* and all rows were scanned without error.
C26_HooksAroundTheQuery ==
    /\ \A e \in Events("before") :
         /\ hk.log[e][2] = e
         /\ hk.hooks.beforeQuery[e] = [id |-> e, fails |-> hk.log[e][3]]
         /\ hk.log[e][3] =>
              /\ e = Len(hk.log)
              /\ hk.pc = "done"
              /\ hk.ret = [result |-> FALSE, err |-> HookError(hk.hooks.beforeQuery[e])]
    /\ \A e \in Events("prepare") \cup Events("query") :
         /\ e > Len(hk.hooks.beforeQuery)
         /\ \A b \in 1..Len(hk.hooks.beforeQuery) :
              hk.log[b] = <<"before", b, FALSE>>
    /\ \A e \in Events("after") :
         \E q \in Events("query"), s \in Events("scanned") : q < s /\ s < e

\* an Execute that ran two before hooks, the query, the scan and an after
\* hook, and returned the result
C26_Witness ==
    /\ hk.pc = "done"
    /\ hk.ret.result
    /\ Len(hk.hooks.beforeQuery) = 2
    /\ Events("before") = {1, 2}
    /\ Events("query") # {}
    /\ Events("after") # {}


(***************************************************************************)
(* The statement cache with ClearStmtCache (constants.go 129-175) and the  *)
(* callers that run the statement getStmt gave them (builder.go 319-339,   *)
(* update.go 154-164).  A section of code between Lock and Unlock, or      *)
(* between RLock and RUnlock, is one step: the mutex keeps clear() out of  *)
(* it.  What a caller does with the statement after getStmt returned is    *)
(* outside every lock and is a step of its own.                            *)
(***************************************************************************)
ClearCallers == {"q1", "q2"}

NoStore == [h \in {} |-> 0]

ClearIdle ==
    cl = [ store |-> NoStore, closed |-> {}, prepared |-> 0, begun |-> 0,
           clears |-> 0, uses |-> {},
           callers |-> [g \in ClearCallers |-> [pc |-> "idle", sql |-> "", stmt |-> 0]] ]

\* Execute with the cache: hashSQL and the lookup of getStmt under the read
\* lock; a hit returns the statement
GetStmtCached(g) ==
    /\ cl.callers[g].pc = "idle"
    /\ cl.begun < MaxStmtUses
    /\ \E sqlStr \in SQLTexts :
         LET hash == hashSQL(sqlStr) IN
         cl' = [cl EXCEPT
                  !.begun = @ + 1,
                  !.callers[g] =
                     IF hash \in DOMAIN cl.store
                       THEN [pc |-> "have", sql |-> sqlStr, stmt |-> cl.store[hash]]
                       ELSE [pc |-> "miss", sql |-> sqlStr, stmt |-> 0]]
    /\ UNCHANGED <<ins, hk, builderVars, coerceVars, scanVars, metaVars, txVars,
                   stmtVars, fragVars, colVars, execVars>>

\* getStmt after a miss, under the write lock: the second lookup,
\* PrepareContext, the store
GetStmtPrepared(g) ==
    /\ cl.callers[g].pc = "miss"
    /\ LET hash == hashSQL(cl.callers[g].sql) IN
       \E prepareFails \in BOOLEAN :
         cl' = IF hash \in DOMAIN cl.store
                 THEN [cl EXCEPT !.callers[g].pc = "have",
                                 !.callers[g].stmt = cl.store[hash]]
               ELSE IF prepareFails
                 THEN [cl EXCEPT !.callers[g] = [pc |-> "idle", sql |-> "", stmt |-> 0]]
               ELSE [cl EXCEPT !.prepared = @ + 1,
                               !.store = (hash :> (cl.prepared + 1)) @@ @,
                               !.callers[g].pc = "have",
                               !.callers[g].stmt = cl.prepared + 1]
    /\ UNCHANGED <<ins, hk, builderVars, coerceVars, scanVars, metaVars, txVars,
                   stmtVars, fragVars, colVars, execVars>>

\* stmt.QueryContext(ctx, args...) or stmt.ExecContext(ctx, args...) on the
\* statement getStmt returned
StmtQueryContext(g) ==
    /\ cl.callers[g].pc = "have"
    /\ cl' = [cl EXCEPT
                !.uses = @ \cup {[ stmt |-> cl.callers[g].stmt,
                                   closed |-> cl.callers[g].stmt \in cl.closed ]},
                !.callers[g] = [pc |-> "idle", sql |-> "", stmt |-> 0]]
    /\ UNCHANGED <<ins, hk, builderVars, coerceVars, scanVars, metaVars, txVars,
                   stmtVars, fragVars, colVars, execVars>>

\* ClearStmtCache: clear() closes every statement of the store and replaces
\* the store by an empty one, under the write lock
ClearStmtCache ==
    /\ cl.clears < MaxClears
    /\ cl' = [cl EXCEPT !.clears = @ + 1,
                        !.closed = @ \cup {cl.store[h] : h \in DOMAIN cl.store},
                        !.store = NoStore]
    /\ UNCHANGED <<ins, hk, builderVars, coerceVars, scanVars, metaVars, txVars,
                   stmtVars, fragVars, colVars, execVars>>

ClearNext ==
    \/ \E g \in ClearCallers :
         GetStmtCached(g) \/ GetStmtPrepared(g) \/ StmtQueryContext(g)
    \/ ClearStmtCache

\* C28: under any interleaving of query executions and ClearStmtCache calls
\* no caller runs a statement obtained from getStmt after ClearStmtCache
\* closed it, and the cache holds no closed statement once ClearStmtCache
\* has returned.
C28_NoClosedStatementUsed ==
    /\ \A u \in cl.uses : ~u.closed
    /\ \A h \in DOMAIN cl.store : cl.store[h] \notin cl.closed

(***************************************************************************)
(* The specifications: one per part of the program.                        *)
(***************************************************************************)

RestIdle == MetaIdle /\ TxIdle /\ StmtIdle /\ FragIdle /\ ColIdle /\ ExecIdle
            /\ InsIdle /\ HookIdle /\ ClearIdle

InitBuilder == BuilderInit /\ CoerceIdle /\ ScanIdle /\ RestIdle
SpecBuilder == InitBuilder /\ [][BuilderNext]_vars

InitCoerce == BuilderIdle /\ CoerceInit /\ ScanIdle /\ RestIdle
SpecCoerce == InitCoerce /\ [][CoerceNext]_vars

InitScan == BuilderIdle /\ CoerceIdle /\ ScanInit /\ RestIdle
SpecScan == InitScan /\ [][ScanNext]_vars

InitMeta == BuilderIdle /\ CoerceIdle /\ ScanIdle /\ RestIdle
SpecMeta == InitMeta /\ [][MetaNext]_vars

InitTx == BuilderIdle /\ CoerceIdle /\ ScanIdle /\ RestIdle
SpecTx == InitTx /\ [][TxNext]_vars

InitStmt == BuilderIdle /\ CoerceIdle /\ ScanIdle /\ RestIdle
SpecStmt == InitStmt /\ [][StmtNext]_vars

InitFrag == BuilderIdle /\ CoerceIdle /\ ScanIdle /\ RestIdle
SpecFrag == InitFrag /\ [][FragNext]_vars

InitSubquery == BuilderInit /\ CoerceIdle /\ ScanIdle /\ RestIdle
SpecSubquery == InitSubquery /\ [][SubqueryNext]_vars

InitCol == BuilderIdle /\ CoerceIdle /\ ScanIdle /\ RestIdle
SpecCol == InitCol /\ [][ColNext]_vars

InitExec == BuilderIdle /\ CoerceIdle /\ ScanIdle /\ RestIdle
SpecExec == InitExec /\ [][ExecNext]_vars

InitIns == BuilderIdle /\ CoerceIdle /\ ScanIdle /\ RestIdle
SpecIns == InitIns /\ [][InsNext]_vars

InitHook == BuilderIdle /\ CoerceIdle /\ ScanIdle /\ RestIdle
SpecHook == InitHook /\ [][HookNext]_vars

InitClear == BuilderIdle /\ CoerceIdle /\ ScanIdle /\ RestIdle
SpecClear == InitClear /\ [][ClearNext]_vars

====
